---- MODULE Spec2Model ----
EXTENDS Integers, Sequences, FiniteSets, TLC

(***************************************************************************)
(* Model of the NewsBot worker (src/bots/news_bot.py) with its RSS         *)
(* fetcher (src/sources/rss_fetcher.py) and X poster                       *)
(* (src/utils/x_poster.py).                                                *)
(*                                                                         *)
(* The bot is one asyncio event loop.  A coroutine runs without            *)
(* interruption between two awaits that really suspend, so every action    *)
(* below is the code between two such awaits.  Three callers run           *)
(* fetch_and_send_news as separate coroutines: start() (once), the         *)
(* APScheduler interval job, and the /latest handler.  Telegram updates    *)
(* are handled one at a time (the Application is built without             *)
(* concurrent updates), so one handler is in progress at most.             *)
(*                                                                         *)
(* Replies of a handler (reply_text, edit_message_text) are taken as       *)
(* delivered; send_message of a suggestion may fail (the code catches it). *)
(***************************************************************************)

\* ---------------------------------------------------------------- bounds
\* longest source listing (a prefix of Catalog)
MaxFeed == 3
\* fetch_and_send_news invocations, and cycles of BaseBot._main_loop, in one
\* run of the model
MaxCycles == 2
\* longest list fetch_content returns
MaxItems == 2
\* largest configured frequency (hours)
MaxFrequency == 2
\* calls of BaseBot.stop
MaxStops == 2
\* numbered lines in one answer of the drafting service
MaxResponse == 4
\* bot ids the Config Store can hand out
MaxBots == 2
\* writes to the Config Store in one run of the model
MaxWrites == 3
\* words of a headline
MaxWords == 7
\* bot processes the BotFather spawns in one run of the model
MaxSpawns == 2
\* fetch_content calls on one bot instance
MaxFetches == 2
\* search queries, or websites, configured for one bot
MaxQueries == 2

\* ------------------------------------------------------ program constants
BatchSize == 3
FetchLimit == 10
MaxDrafts == 3
TweetLimit == 280
SecondsPerHour == 3600
RetrySeconds == 300
MaxAttempts == 2

\* ----------------------------------------------------------- source data
\* What the feeds can list, in listing order.  An article is named by its
\* index in Catalog.  Entry 4 repeats the title of entry 1 (up to
\* case); entry 6 repeats the link of entry 1 under another title; entry 7
\* has no link; entry 8 has no parsed date.  drafts: how many drafts the text generator returns for the
\* article (0 to 3: see MaxDrafts).
\* 'published_parsed' of an entry without a parsed date: None
NoDate == 0

Catalog ==
  << [title |-> "Alpha",  link |-> "u1", published |-> 2, drafts |-> 3],
     [title |-> "Beta",   link |-> "u2", published |-> 3, drafts |-> 2],
     [title |-> "Gamma",  link |-> "u3", published |-> 1, drafts |-> 0],
     [title |-> "ALPHA",  link |-> "u5", published |-> 3, drafts |-> 3],
     [title |-> "Delta",  link |-> "u4", published |-> 2, drafts |-> 1],
     [title |-> "Eps",    link |-> "u1", published |-> 3, drafts |-> 2],
     [title |-> "Zeta",   link |-> "",   published |-> 3, drafts |-> 1],
     [title |-> "Eta",    link |-> "u6", published |-> NoDate, drafts |-> 1] >>

Articles == 1..Len(Catalog)
Links == {Catalog[a].link : a \in Articles}
PubTimes == {Catalog[a].published : a \in Articles}

\* title.lower().strip()
LowerStrip(t) ==
  CASE t = "Alpha"  -> "alpha"
    [] t = "ALPHA"  -> "alpha"
    [] t = "Beta"   -> "beta"
    [] t = "Gamma"  -> "gamma"
    [] t = "Delta"  -> "delta"
    [] t = "Eps"    -> "eps"
    [] t = "Zeta"   -> "zeta"
    [] t = "Eta"    -> "eta"
    [] OTHER        -> t

RECURSIVE DedupFrom(_, _, _)
DedupFrom(articles, i, seen_titles) ==
  IF i > Len(articles) THEN << >>
  ELSE LET title == LowerStrip(Catalog[articles[i]].title)
       IN  IF title # "" /\ title \notin seen_titles
           THEN << articles[i] >> \o DedupFrom(articles, i + 1, seen_titles \cup {title})
           ELSE DedupFrom(articles, i + 1, seen_titles)

\* RSSFetcher._deduplicate_articles: the first article of each title is kept
_deduplicate_articles(articles) == DedupFrom(articles, 1, {})

RECURSIVE SortedFrom(_, _)
SortedFrom(articles, p) ==
  IF p < 0 THEN << >>
  ELSE SelectSeq(articles, LAMBDA a : Catalog[a].published = p)
         \o SortedFrom(articles, p - 1)

\* sorted(..., key=published_parsed, reverse=True): stable, newest first
SortNewestFirst(articles) ==
  SortedFrom(articles, CHOOSE p \in PubTimes : \A q \in PubTimes : q <= p)

\* sorted() compares the keys: None against a time tuple, or against None,
\* raises TypeError
SortRaises(articles) ==
  /\ Len(articles) >= 2
  /\ \E k \in 1..Len(articles) : Catalog[articles[k]].published = NoDate

\* fetch_latest_articles raises on this listing
FetchRaises(listing) == SortRaises(_deduplicate_articles(listing))

Take(s, n) == SubSeq(s, 1, IF Len(s) < n THEN Len(s) ELSE n)

\* RSSFetcher.fetch_latest_articles on a listing: dedup, sort, top 10
fetch_latest_articles(listing) ==
  Take(SortNewestFirst(_deduplicate_articles(listing)), FetchLimit)

\* ------------------------------------------------------------- publisher
\* the credential sets an XPoster can be built with (TRUE: the value is set)
CredConfigs ==
  { [bearer_token |-> FALSE, api_key |-> FALSE, api_secret |-> FALSE,
     access_token |-> FALSE, access_token_secret |-> FALSE],
    [bearer_token |-> FALSE, api_key |-> TRUE, api_secret |-> TRUE,
     access_token |-> FALSE, access_token_secret |-> FALSE],
    [bearer_token |-> TRUE, api_key |-> FALSE, api_secret |-> FALSE,
     access_token |-> FALSE, access_token_secret |-> FALSE],
    [bearer_token |-> FALSE, api_key |-> TRUE, api_secret |-> TRUE,
     access_token |-> TRUE, access_token_secret |-> TRUE] }

HasOAuth(c) == c.api_key /\ c.api_secret /\ c.access_token /\ c.access_token_secret
HasCredentials(c) == c.bearer_token \/ HasOAuth(c)

\* XPoster.post_tweet: the bool it returns.  api_ok: the API answered 201.
post_tweet(text, c, api_ok) ==
  IF text.len = 0 \/ text.len > TweetLimit THEN FALSE
  ELSE IF ~c.bearer_token /\ ~HasOAuth(c) THEN TRUE
  ELSE api_ok

\* XPoster.post_tweet: whether the HTTP request to the X API is made
post_tweet_requests(text, c) ==
  ~(text.len = 0 \/ text.len > TweetLimit) /\ HasCredentials(c)

\* ------------------------------------------------------- approval handler
OwnerId == "owner"

\* callback data: a string, as the sequence of its characters
SkipToken == << "s", "k", "i", "p" >>
SelectToken(i) == << "t", CASE i = 0 -> "0" [] i = 1 -> "1" [] i = 2 -> "2"
                            [] i = 3 -> "3" [] i = 4 -> "4" [] OTHER -> "9" >>
\* the buttons _send_tweet_suggestions puts under a message of n drafts
Buttons(n) == {SelectToken(i) : i \in 1..n} \cup {SkipToken}

\* the callback data the handler is exercised with: every button, and
\* tokens no button carries
Tokens ==
  Buttons(MaxDrafts) \cup
  { SelectToken(0), SelectToken(4), << "t", "1", "0" >>, << "t", "1", "x" >>,
    << "t" >>, << "t", "x" >>, << "x" >> }

Digits == {"0", "1", "2", "3", "4", "5", "6", "7", "8", "9"}
DigitValue(ch) ==
  CASE ch = "0" -> 0 [] ch = "1" -> 1 [] ch = "2" -> 2 [] ch = "3" -> 3
    [] ch = "4" -> 4 [] ch = "5" -> 5 [] ch = "6" -> 6 [] ch = "7" -> 7
    [] ch = "8" -> 8 [] ch = "9" -> 9

NoText == [art |-> 0, idx |-> 0, len |-> 0]

Outcome(reply, text, posts, success, del) ==
  [reply |-> reply, text |-> text, posts |-> posts, success |-> success, del |-> del]

\* an action of a user without an entry gets no reply
ExpiredOutcome_Silent == Outcome("none", NoText, << >>, FALSE, FALSE)

\* the reply to an action of a user without an entry in pending_tweets
ExpiredOutcome == Outcome("expired", NoText, << >>, FALSE, FALSE)

\* the skip branch without the `del`
SkipOutcome_Kept == Outcome("skipped", NoText, << >>, FALSE, FALSE)

\* the skip branch: the reply, then `del self.pending_tweets[user_id]`
SkipOutcome == Outcome("skipped", NoText, << >>, FALSE, TRUE)

\* the branch of a valid index with the `del` only after a post that succeeded
SelectOutcome_KeptOnFailure(tweet_text, success) ==
  Outcome(IF success THEN "posted" ELSE "simulated",
          tweet_text, << tweet_text >>, success, success)

\* the branch of a valid index, after post_tweet(tweet_text) returned success:
\* either reply shows the text, and the entry is deleted after it
SelectOutcome(tweet_text, success) ==
  Outcome(IF success THEN "posted" ELSE "simulated",
          tweet_text, << tweet_text >>, success, TRUE)

\* the handler looks up the owner's entry whoever pressed
button_callback_OwnersEntry(user_id, data, pending, c, api_ok) ==
  IF OwnerId \notin DOMAIN pending
  THEN ExpiredOutcome
  ELSE IF data = SkipToken
  THEN SkipOutcome
  ELSE IF Len(data) = 2 /\ data[1] = "t" /\ data[2] \in Digits
          /\ DigitValue(data[2]) \in 1..Len(pending[OwnerId].tweets)
  THEN SelectOutcome(pending[OwnerId].tweets[DigitValue(data[2])],
                     post_tweet(pending[OwnerId].tweets[DigitValue(data[2])], c, api_ok))
  ELSE Outcome("invalid_selection", NoText, << >>, FALSE, FALSE)

\* NewsBot.button_callback from the lookup of pending_tweets to the reply:
\* the reply (and the text it shows), the texts handed to post_tweet, what
\* post_tweet returned, and whether `del self.pending_tweets[user_id]`
\* follows the reply
button_callback(user_id, data, pending, c, api_ok) ==
  IF user_id \notin DOMAIN pending
  THEN ExpiredOutcome
  ELSE
    LET tweets == pending[user_id].tweets IN
    IF data = SkipToken
    THEN SkipOutcome
    ELSE IF Len(data) >= 1 /\ data[1] = "t"
    THEN
      IF Len(data) < 2 \/ data[2] \notin Digits
      THEN Outcome("invalid_selection", NoText, << >>, FALSE, FALSE)
      ELSE
        LET tweet_index == DigitValue(data[2]) - 1 IN
        IF 0 <= tweet_index /\ tweet_index < Len(tweets)
        THEN SelectOutcome(tweets[tweet_index + 1],
                           post_tweet(tweets[tweet_index + 1], c, api_ok))
        ELSE Outcome("invalid_tweet_selection", NoText, << >>, FALSE, FALSE)
    ELSE Outcome("unknown_action", NoText, << >>, FALSE, FALSE)

\* ----------------------------------------------------------------- drafts
\* lengths of the three drafts of a set: both ends of what the generators
\* let through (1..280) and one in between
DraftLen(i) == CASE i = 1 -> TweetLimit [] i = 2 -> 140 [] OTHER -> 1

\* the drafts TextGenerator.generate_tweets returns for article a
generate_tweets(a) ==
  [i \in 1..Catalog[a].drafts |-> [art |-> a, idx |-> i, len |-> DraftLen(i)]]

\* ------------------------------------------------------------------ state
VARIABLES
  phase,          \* NewsBot.start: "new", "warmup" (polling, job scheduled,
                  \* in sleep(5)), "running" (the first cycle was started)
  feed,           \* how many entries of Catalog the sources list now
  creds,          \* the credentials of self.x_poster
  sent_articles,  \* self.sent_articles: links
  pending_tweets, \* self.pending_tweets: user id -> tweets, article
  chat,           \* the suggestion messages in the owner's chat that still
                  \* carry their buttons
  cycles,         \* per caller, the fetch_and_send_news coroutine it runs
  nCycles,        \* fetch_and_send_news invocations so far
  dispatches,     \* << article, cycle >>: _send_tweet_suggestions was called
  hpc,            \* the update handler: "idle", "latest", "edit"
  act,            \* the button_callback in progress or just over: the data
                  \* and message it came with, pending_tweets as it found
                  \* it, whether the message of that entry still had its
                  \* buttons, and what it did (NoAct once the bot moved on)
  latest_reply,   \* the text of the /latest status message
  base,           \* a bot built on BaseBot (src/bots/base_bot.py)
  run,            \* one call of RSSFetcher.fetch_latest_articles, source by
                  \* source
  gen,            \* one call of TextGenerator.generate_tweets
  reg,            \* the Config Store (botfather/bot_registry.yaml), the
                  \* BotFather's bot_processes and the bot processes
  call,           \* the external calls made for one item: to its sources,
                  \* to the drafting service, to the publishing endpoint
  tg,             \* one call of a generator of TextGenerator on one content
                  \* item, texts taken by their lengths
  sug,            \* one call of BaseBot._handle_tweet_suggestion
  sub,            \* a bot of a subclass of BaseBot over its fetch_content
                  \* calls
  sup             \* the BotFather as supervisor: the records of the bots,
                  \* bot_processes, the processes, the handler and the
                  \* auto-restart in progress

vars == << phase, feed, creds, sent_articles, pending_tweets, chat, cycles,
           nCycles, dispatches, hpc, act, latest_reply, base, run, gen, reg, call,
           tg, sug, sub, sup >>

\* the NewsBot
news == << phase, feed, creds, sent_articles, pending_tweets, chat, cycles,
           nCycles, dispatches, hpc, act, latest_reply >>

\* what the NewsBot does not touch
aside == << base, run, gen, reg, call, tg, sug, sub, sup >>

\* who calls fetch_and_send_news
Invokers == {"startup", "sched", "manual"}

Idle == [pc |-> "idle", batch |-> << >>, i |-> 0, id |-> 0]
NoPending == [u \in {} |-> 0]
NoAct == [on |-> FALSE, data |-> << >>, msg |-> [article |-> 0, cyc |-> 0],
          entry |-> NoPending, shown |-> FALSE,
          out |-> Outcome("none", NoText, << >>, FALSE, FALSE), done |-> TRUE]

\* the record of a finished handler is dropped at the bot's next step
Forget == act' = IF hpc = "edit" THEN act ELSE NoAct

\* BaseBot.__init__: the Application is built, nothing runs.  frequency is
\* set when the bot starts.
BaseNew ==
  [running |-> FALSE, app |-> "built", polling |-> FALSE, frequency |-> 0,
   loop |-> "none", items |-> << >>, i |-> 0, offered |-> {},
   cycle |-> 0, failed |-> FALSE, delay |-> 0,
   stops |-> 0, starting |-> FALSE, stopping |-> FALSE, raised |-> FALSE, data |-> "none", reply |-> "none"]

\* no call of fetch_latest_articles, of generate_tweets
NoRun ==
  [pc |-> "none", n |-> 0, modes |-> << "ok", "ok", "ok" >>, k |-> 0,
   attempt |-> 0, tries |-> << 0, 0, 0 >>, naps |-> << 0, 0, 0 >>,
   all_articles |-> << >>, log |-> << >>, result |-> << >>]
NoGen ==
  [pc |-> "none", api_key |-> FALSE,
   response |-> [raised |-> FALSE, tweets |-> << >>],
   analysis |-> [raised |-> FALSE, tweets |-> << >>],
   templates |-> [raised |-> FALSE, tweets |-> << >>],
   result |-> << >>, told |-> "none"]

\* no generator was called
NoItem ==
  [words |-> << >>, topic |-> "plain", summary |-> 0, link |-> 0,
   articles |-> 0, title |-> 0, subject |-> 0, company |-> 0, location |-> 0]
NoTG ==
  [pc |-> "none", generator |-> "none", item |-> NoItem, api_key |-> FALSE,
   response |-> [raised |-> FALSE, len |-> 0],
   result |-> << >>, offered |-> << >>]

\* _handle_tweet_suggestion was not called
NoSug ==
  [pc |-> "none", auto_post |-> FALSE, x_credentials |-> FALSE,
   env |-> [bearer_token |-> FALSE, api_key |-> FALSE, api_secret |-> FALSE,
            access_token |-> FALSE, access_token_secret |-> FALSE],
   text |-> 0, requested |-> FALSE, reported |-> FALSE, success |-> FALSE,
   sent |-> << >>]

\* a bot of a subclass before its first fetch_content
NoSub == [pc |-> "none"]

\* the BotFather before it is started (SpecFather begins with a store)
NoSup == [pc |-> "none"]

\* the calls made for one item, in order: the feed of each of two sources,
\* the drafting service, the publishing endpoint
Stages == << "source", "source", "drafting", "publishing" >>

NoCall ==
  [pc |-> "idle", stage |-> 0, attempt |-> 0, cycle |-> 0,
   results |-> [i \in 1..Len(Stages) |-> "none"]]

\* ------------------------------------------------------------ config store
\* bot ids (uuid4 prefixes; 0 is no id) and the configurations add_bot is
\* given, named by their bot_type
Ids == 1..MaxBots
BotConfigs == {"rss_news", "web_scraper"}

\* get_bot of an id without record: None
NoRecord == [id |-> 0, c |-> "", active |-> FALSE, created_at |-> 0, updated_at |-> 0]

\* a bot process that was not launched
NoChild == [status |-> "none", code |-> 0, runtime |-> FALSE]

NoOp == [op |-> "none", id |-> 0, c |-> "", ok |-> FALSE, rec |-> NoRecord,
         before |-> [i \in {} |-> NoRecord]]

\* no registry file yet, no bot process
RegNew ==
  [exists |-> FALSE, file |-> {}, used |-> {}, clock |-> 0,
   bot_processes |-> {}, spawned |-> {}, child |-> [i \in Ids |-> NoChild],
   last |-> NoOp]

\* the listings of the sources: a prefix of Catalog up to MaxFeed, or all of it
Feeds == (0..MaxFeed) \cup {Len(Catalog)}

Listing == [k \in 1..feed |-> k]
Active(inv) == cycles[inv].pc # "idle"
ActiveCycles == {inv \in Invokers : Active(inv)}

Init ==
  /\ phase = "new"
  /\ feed \in Feeds
  /\ creds \in CredConfigs
  /\ sent_articles = {}
  /\ pending_tweets = NoPending
  /\ chat = {}
  /\ cycles = [inv \in Invokers |-> Idle]
  /\ nCycles = 0
  /\ dispatches = {}
  /\ hpc = "idle"
  /\ act = NoAct
  /\ latest_reply = "none"
  /\ base = BaseNew /\ run = NoRun /\ gen = NoGen /\ reg = RegNew
  /\ call = NoCall
  /\ tg = NoTG
  /\ sug = NoSug /\ sub = NoSub /\ sup = NoSup

\* NewsBot.start up to `await asyncio.sleep(5)`: polling is on, the interval
\* job is scheduled
Start ==
  /\ phase = "new"
  /\ phase' = "warmup"
  /\ UNCHANGED << feed, creds, sent_articles, pending_tweets, chat, cycles,
                  nCycles, dispatches, hpc, latest_reply >>
  /\ Forget
  /\ UNCHANGED aside

\* a caller enters fetch_and_send_news and waits for the fetcher
Enter(inv) ==
  /\ nCycles < MaxCycles
  /\ ~Active(inv)
  /\ nCycles' = nCycles + 1
  /\ cycles' = [cycles EXCEPT ![inv] =
                  [pc |-> "fetch", batch |-> << >>, i |-> 0, id |-> nCycles + 1]]

\* NewsBot.start after the sleep: `await self.fetch_and_send_news()`
StartupCycle ==
  /\ phase = "warmup"
  /\ phase' = "running"
  /\ Enter("startup")
  /\ UNCHANGED << feed, creds, sent_articles, pending_tweets, chat,
                  dispatches, hpc, latest_reply >>
  /\ Forget
  /\ UNCHANGED aside

\* the interval job fires.  The scheduler runs one instance of a job at a
\* time, and the first run is a whole interval (hours) after start(): the
\* model takes start()'s own cycle to be over by then.
ScheduledCycle ==
  /\ phase = "running"
  /\ ~Active("startup")
  /\ Enter("sched")
  /\ UNCHANGED << phase, feed, creds, sent_articles, pending_tweets, chat,
                  dispatches, hpc, latest_reply >>
  /\ Forget
  /\ UNCHANGED aside

\* NewsBot.latest_command up to `await self.fetch_and_send_news()`
LatestCommand ==
  /\ phase # "new"
  /\ hpc = "idle"
  /\ Enter("manual")
  /\ hpc' = "latest"
  /\ latest_reply' = "fetching"
  /\ UNCHANGED << phase, feed, creds, sent_articles, pending_tweets, chat,
                  dispatches >>
  /\ Forget
  /\ UNCHANGED aside

\* fetch_and_send_news returns `result`; latest_command then edits its
\* status message to the text for that result
Return(inv, result) ==
  /\ cycles' = [cycles EXCEPT ![inv] = Idle]
  /\ IF inv = "manual"
     THEN hpc' = "idle" /\ latest_reply' = result
     ELSE UNCHANGED << hpc, latest_reply >>

\* the filter of fetch_and_send_news without the test of sent_articles
NewArticles_All(articles, sent) == articles

\* the filter of fetch_and_send_news: the articles whose link was not sent
NewArticles(articles, sent) ==
  SelectSeq(articles, LAMBDA a : Catalog[a].link \notin sent)

\* fetch_and_send_news from the fetcher's answer to the first draft request
\* (or, when the fetcher raised, to `return "error"`)
FetchDone(inv) ==
  /\ cycles[inv].pc = "fetch"
  /\ LET articles == fetch_latest_articles(Listing)
         new_articles == NewArticles(articles, sent_articles)
     IN  IF FetchRaises(Listing) THEN Return(inv, "error")
         ELSE IF articles = << >> THEN Return(inv, "no_articles")
         ELSE IF new_articles = << >> THEN Return(inv, "no_new_articles")
         ELSE /\ cycles' = [cycles EXCEPT ![inv].pc = "draft",
                                          ![inv].batch = Take(new_articles, BatchSize),
                                          ![inv].i = 1]
              /\ UNCHANGED << hpc, latest_reply >>
  /\ UNCHANGED << phase, feed, creds, sent_articles, pending_tweets, chat,
                  nCycles, dispatches >>
  /\ Forget
  /\ UNCHANGED aside

\* the loop of fetch_and_send_news is in `await asyncio.sleep(2)`: before the
\* next article of the batch (then it goes on to that article's draft
\* request without another step), or before it returns
Sleep(c) ==
  IF c.i < Len(c.batch) THEN [c EXCEPT !.pc = "draft", !.i = @ + 1]
  ELSE [c EXCEPT !.pc = "sleep"]

\* the whole batch is added to sent_articles after its first article
Consumed_Batch(c) == {Catalog[c.batch[j]].link : j \in 1..Len(c.batch)}

\* `self.sent_articles.add(article.get('link'))` for the article the loop of
\* cycle c is at
Consumed(c) == {Catalog[c.batch[c.i]].link}

\* _process_article from the drafts to `await send_message` (through
\* _send_tweet_suggestions), or, without drafts, to the sleep of the loop
ProcessArticle(inv) ==
  /\ cycles[inv].pc = "draft"
  /\ LET article == cycles[inv].batch[cycles[inv].i]
         tweets == generate_tweets(article)
     IN
     \E send_ok \in BOOLEAN :
       IF tweets = << >>
       THEN /\ send_ok
            /\ sent_articles' = sent_articles \cup Consumed(cycles[inv])
            /\ cycles' = [cycles EXCEPT ![inv] = Sleep(@)]
            /\ UNCHANGED << pending_tweets, chat, dispatches >>
       ELSE /\ pending_tweets' =
                 [u \in DOMAIN pending_tweets \cup {OwnerId} |->
                    IF u = OwnerId
                    THEN [tweets |-> tweets, article |-> article,
                          cyc |-> cycles[inv].id]
                    ELSE pending_tweets[u]]
            /\ dispatches' = dispatches \cup {<< article, cycles[inv].id >>}
            /\ chat' = IF send_ok
                       THEN chat \cup {[article |-> article,
                                        cyc |-> cycles[inv].id]}
                       ELSE chat
            /\ cycles' = [cycles EXCEPT ![inv].pc = "sent"]
            /\ UNCHANGED sent_articles
  /\ UNCHANGED << phase, feed, creds, nCycles, hpc, latest_reply >>
  /\ Forget
  /\ UNCHANGED aside

\* send_message returned: sent_articles.add, then `await asyncio.sleep(2)`
SendDone(inv) ==
  /\ cycles[inv].pc = "sent"
  /\ sent_articles' = sent_articles \cup Consumed(cycles[inv])
  /\ cycles' = [cycles EXCEPT ![inv] = Sleep(@)]
  /\ UNCHANGED << phase, feed, creds, pending_tweets, chat, nCycles,
                  dispatches, hpc, latest_reply >>
  /\ Forget
  /\ UNCHANGED aside

\* the sleep after the last article is over: `return "success"`
\* (articles_processed counts every article of the batch, since
\* _process_article catches what it raises)
SleepDone(inv) ==
  /\ cycles[inv].pc = "sleep"
  /\ Return(inv, "success")
  /\ UNCHANGED << phase, feed, creds, sent_articles, pending_tweets, chat,
                  nCycles, dispatches >>
  /\ Forget
  /\ UNCHANGED aside

\* message m shows the drafts that are the user's entry in `pending`
EntryOf(m, pending) ==
  /\ OwnerId \in DOMAIN pending
  /\ pending[OwnerId].article = m.article
  /\ pending[OwnerId].cyc = m.cyc

\* the owner presses a button of message m (or callback data arrives for it):
\* NewsBot.button_callback up to its edit_message_text, which also takes the
\* buttons off the message
ButtonPress(m, data) ==
  /\ hpc = "idle"
  /\ m \in chat
  /\ \E api_ok \in BOOLEAN :
       LET out == button_callback(OwnerId, data, pending_tweets, creds, api_ok)
       IN  /\ api_ok \/ (out.posts # << >> /\ post_tweet_requests(out.posts[1], creds))
           /\ act' = [on |-> TRUE, data |-> data, msg |-> m,
                      entry |-> pending_tweets,
                      shown |-> \E x \in chat : EntryOf(x, pending_tweets),
                      out |-> out, done |-> ~out.del]
           /\ hpc' = IF out.del THEN "edit" ELSE "idle"
  /\ chat' = chat \ {m}
  /\ UNCHANGED << phase, feed, creds, sent_articles, pending_tweets, cycles,
                  nCycles, dispatches, latest_reply >>
  /\ UNCHANGED aside

\* edit_message_text returned: `del self.pending_tweets[user_id]`
EditDone ==
  /\ hpc = "edit"
  /\ pending_tweets' = [u \in DOMAIN pending_tweets \ {OwnerId} |-> pending_tweets[u]]
  /\ act' = [act EXCEPT !.done = TRUE]
  /\ hpc' = "idle"
  /\ UNCHANGED << phase, feed, creds, sent_articles, chat, cycles, nCycles,
                  dispatches, latest_reply >>
  /\ UNCHANGED aside

Next ==
  \/ Start
  \/ StartupCycle
  \/ ScheduledCycle
  \/ LatestCommand
  \/ \E inv \in Invokers : FetchDone(inv)
  \/ \E inv \in Invokers : ProcessArticle(inv)
  \/ \E inv \in Invokers : SendDone(inv)
  \/ \E inv \in Invokers : SleepDone(inv)
  \/ \E m \in chat, data \in Tokens : ButtonPress(m, data)
  \/ EditDone

Spec == Init /\ [][Next]_vars

\* ------------------------------------------------- cycles one after another
\* The same bot with no /latest and no button pressed, and a feed of any
\* length up to the whole catalog: start()'s cycle, then the interval job's
\* cycles, each one over before the next begins.

InitSerial ==
  /\ phase = "new"
  /\ feed \in 0..Len(Catalog)
  /\ creds \in CredConfigs
  /\ sent_articles = {}
  /\ pending_tweets = NoPending
  /\ chat = {}
  /\ cycles = [inv \in Invokers |-> Idle]
  /\ nCycles = 0
  /\ dispatches = {}
  /\ hpc = "idle"
  /\ act = NoAct
  /\ latest_reply = "none"
  /\ base = BaseNew /\ run = NoRun /\ gen = NoGen /\ reg = RegNew
  /\ call = NoCall
  /\ tg = NoTG
  /\ sug = NoSug /\ sub = NoSub /\ sup = NoSup

Serial == {"startup", "sched"}

NextSerial ==
  \/ Start
  \/ StartupCycle
  \/ ScheduledCycle
  \/ \E inv \in Serial : FetchDone(inv)
  \/ \E inv \in Serial : ProcessArticle(inv)
  \/ \E inv \in Serial : SendDone(inv)
  \/ \E inv \in Serial : SleepDone(inv)

SpecSerial == InitSerial /\ [][NextSerial]_vars

\* ------------------------------------------------------------------ claims

\* the handler that `act` records found an entry of the owner
HadEntry == act.on /\ OwnerId \in DOMAIN act.entry

\* the drafts of that entry
Items == act.entry[OwnerId].tweets

\* the handler called post_tweet
Published == act.out.posts # << >>

\* the replies that tell the owner the action was not carried out
Rejections ==
  {"expired", "invalid_selection", "invalid_tweet_selection", "unknown_action"}

\* the data is "t" and a decimal number
IsSelect(data) ==
  /\ Len(data) >= 2
  /\ data[1] = "t"
  /\ \A j \in 2..Len(data) : data[j] \in Digits

RECURSIVE Decimal(_, _)
Decimal(data, j) ==
  IF j < 2 THEN 0
  ELSE Decimal(data, j - 1) * Cardinality(Digits) + DigitValue(data[j])

\* the index a selection names: the whole number after "t", less one
SelectedIndex(data) == Decimal(data, Len(data)) - 1

\* the link of a dispatch << article, cycle >>
LinkOf(d) == Catalog[d[1]].link

\* the data is that of a button the pressed message shows
OwnButton == act.data \in Buttons(Len(generate_tweets(act.msg.article)))

\* C1 (as the spec states it): when the owner presses a button of a
\* suggestion message while pending_tweets holds the drafts of another, later
\* message that is still open, the reply is "expired" and nothing is
\* published.
C1_SupersededPressExpires ==
  (HadEntry /\ act.shown /\ ~EntryOf(act.msg, act.entry) /\ OwnButton)
    => (act.out.reply = "expired" /\ ~Published)

\* C2 (as the spec states it): a text posted without any credentials is
\* answered with the "simulated" reply, never with the reply of a real post.
C2_SimulatedPostIsMarked ==
  (act.on /\ Published /\ ~HasCredentials(creds))
    => act.out.reply = "simulated"

\* C3 (as the spec states it): at most one fetch_and_send_news is active at
\* any time.
C3_OneActiveCycle == Cardinality(ActiveCycles) <= 1

\* C4 (as the spec states it): each article link is dispatched to the owner
\* at most once, whatever the interleaving of the cycles.
C4_LinkDispatchedOnce ==
  \A d1, d2 \in dispatches : LinkOf(d1) = LinkOf(d2) => d1 = d2

\* C5 (as the spec states it): of cycles run one after another on the same
\* feed, only the first dispatches anything.
C5_SecondRunDispatchesNothing ==
  \A d \in dispatches : d[2] < 2

\* C5 (amended): of cycles run one after another on the same feed, no two
\* dispatch the same link, and only the first dispatches anything when the
\* fetcher returns no more articles than one cycle processes.
C5_SecondRunDispatchesNothingSent ==
  /\ \A d1, d2 \in dispatches : d1[2] # d2[2] => LinkOf(d1) # LinkOf(d2)
  /\ Len(fetch_latest_articles(Listing)) <= BatchSize
       => \A d \in dispatches : d[2] < 2

\* two cycles are over on a feed of exactly one batch, which was dispatched
C5_Witness ==
  /\ nCycles >= 2
  /\ ActiveCycles = {}
  /\ Len(fetch_latest_articles(Listing)) = BatchSize
  /\ dispatches # {}

\* C6: a selection of index k, 0 <= k < N, of an entry of N drafts calls
\* post_tweet once, with draft k of that entry; the reply shows that text;
\* and the entry is deleted after the reply, whatever post_tweet returned.
C6_ValidSelection ==
  (HadEntry /\ IsSelect(act.data)
     /\ 0 <= SelectedIndex(act.data) /\ SelectedIndex(act.data) < Len(Items))
    => /\ act.out.posts = << Items[SelectedIndex(act.data) + 1] >>
       /\ act.out.reply \in {"posted", "simulated"}
       /\ act.out.text = Items[SelectedIndex(act.data) + 1]
       /\ act.done \/ hpc = "edit"
       /\ act.done => OwnerId \notin DOMAIN pending_tweets

\* the last of three drafts was selected, post_tweet failed, and the handler
\* is over
C6_Witness ==
  /\ HadEntry
  /\ Len(Items) = MaxDrafts
  /\ act.data = SelectToken(MaxDrafts)
  /\ act.out.posts = << Items[MaxDrafts] >>
  /\ ~act.out.success
  /\ act.done

\* C7 (as the spec states it): a selection of an index k < 0 or k >= N,
\* whatever the number of its digits, never calls post_tweet and is answered
\* with an invalid-selection reply.
C7_OutOfRangeRejected ==
  (HadEntry /\ IsSelect(act.data)
     /\ (SelectedIndex(act.data) < 0 \/ SelectedIndex(act.data) >= Len(Items)))
    => /\ ~Published
       /\ act.out.reply \in {"invalid_selection", "invalid_tweet_selection"}

\* C8 (as the spec states it): callback data that is neither "skip" nor one
\* of the selections offered for the entry never publishes and is answered
\* with an expired, invalid or unknown reply.
C8_UnknownTokenRejected ==
  (act.on /\ act.data \notin Buttons(IF HadEntry THEN Len(Items) ELSE 0))
    => (~Published /\ act.out.reply \in Rejections)

C10_SkipPath ==
  (HadEntry /\ act.data = SkipToken)
    => /\ act.out.reply = "skipped"
       /\ ~Published
       /\ act.done \/ hpc = "edit"
       /\ act.done => OwnerId \notin DOMAIN pending_tweets

\* an entry of three drafts was skipped from its own message, and the
\* handler is over
C10_Witness ==
  /\ HadEntry
  /\ Len(Items) = MaxDrafts
  /\ EntryOf(act.msg, act.entry)
  /\ act.data = SkipToken
  /\ act.out.reply = "skipped"
  /\ act.done
  /\ pending_tweets = NoPending

\* one step of the table: the owner's is the only entry; an entry appears or
\* changes only with a dispatch; an entry disappears only at the end of a
\* handler that found that very entry
EntryStep ==
  /\ DOMAIN pending_tweets' \subseteq {OwnerId}
  /\ (/\ OwnerId \in DOMAIN pending_tweets'
      /\ \/ OwnerId \notin DOMAIN pending_tweets
         \/ pending_tweets'[OwnerId] # pending_tweets[OwnerId])
       => dispatches' # dispatches
  /\ (OwnerId \in DOMAIN pending_tweets /\ OwnerId \notin DOMAIN pending_tweets')
       => (HadEntry /\ act.out.del /\ act.entry[OwnerId] = pending_tweets[OwnerId])

\* C11 (as the spec states it): the table holds at most one entry per owner;
\* an entry is created only by a dispatch, and it stays until the owner acts
\* on it or a newer dispatch overwrites it.
C11_EntryLifecycle == [][EntryStep]_vars

\* C12 (as the spec states it): no article is dispatched while its link is
\* in sent_articles, also when a fetch result holds the link twice.
C12_NeverReoffered ==
  [][\A d \in dispatches' \ dispatches : LinkOf(d) \notin sent_articles]_vars

\* the owner's entry, if any
Pending == pending_tweets[OwnerId]

C14_PublishFailureReported ==
  (act.on /\ Published /\ HasCredentials(creds) /\ ~act.out.success)
    => /\ Len(act.out.posts) = 1
       /\ act.out.text = act.out.posts[1]
       /\ act.out.reply = "failed"

\* ------------------------------------------------------------------ BaseBot
\* A bot built on BaseBot, from base_bot.py alone.  fetch_content and
\* process_content are abstract there: what they return, or that they raise,
\* is an input (the `except Exception` of _main_loop is for the latter).
\* For an item, process_content gives a text that is then sent ("text") or
\* whose sending fails ("unsent"), gives None ("none"), or raises ("raise").

ItemOutcomes == {"text", "unsent", "none", "raise"}

RECURSIVE SeqsUpTo(_, _)
SeqsUpTo(S, n) ==
  IF n = 0 THEN {<< >>}
  ELSE LET shorter == SeqsUpTo(S, n - 1)
       IN  shorter \cup {Append(q, x) : q \in shorter, x \in S}

\* the lists fetch_content can return, as the outcomes of their items
Batches == SeqsUpTo(ItemOutcomes, MaxItems)

\* the sleep of _main_loop is always the configured interval
LoopDelay_Interval(failed, frequency) == frequency * SecondsPerHour

\* the sleep of _main_loop: `frequency * 3600` after a cycle, 300 after a
\* cycle that raised
LoopDelay(failed, frequency) ==
  IF failed THEN RetrySeconds ELSE frequency * SecondsPerHour

\* _main_loop sleeps at the end of a cycle whether the bot runs or not
EndCycle_Sleeps(b, failed) ==
  [b EXCEPT !.loop = "sleep", !.failed = failed,
            !.delay = LoopDelay(failed, b.frequency)]

\* _main_loop where its cycle ends (failed: in the except branch): it sleeps
\* if self.running, else the `while self.running` is over
EndCycle(b, failed) ==
  IF b.running
  THEN [b EXCEPT !.loop = "sleep", !.failed = failed,
                 !.delay = LoopDelay(failed, b.frequency)]
  ELSE [b EXCEPT !.loop = "over", !.failed = failed, !.delay = 0]

\* BaseBot.start up to `await self.application.updater.start_polling()`:
\* running, Application initialized and started, _main_loop created as a
\* task; the task enters its first cycle while start() awaits
BaseStart ==
  /\ base.app = "built"
  /\ base.stops = 0
  /\ \E f \in 1..MaxFrequency :
       base' = [base EXCEPT !.running = TRUE, !.app = "started",
                            !.starting = TRUE, !.frequency = f,
                            !.loop = "fetch", !.cycle = 1]
  /\ UNCHANGED << news, run, gen, reg, call, tg, sug, sub, sup >>

\* start_polling is over: the bot receives updates
BaseStartDone ==
  /\ base.starting
  /\ base' = [base EXCEPT !.starting = FALSE, !.polling = TRUE]
  /\ UNCHANGED << news, run, gen, reg, call, tg, sug, sub, sup >>

\* `await self.fetch_content()` is over: it raised, or the for loop begins
BaseFetchDone ==
  /\ base.loop = "fetch"
  /\ \/ base' = EndCycle([base EXCEPT !.items = << >>, !.i = 0, !.offered = {}], TRUE)
     \/ \E items \in Batches :
          LET b == [base EXCEPT !.items = items, !.i = 0, !.offered = {}, !.failed = FALSE]
          IN  base' = IF items = << >> \/ ~base.running
                      THEN EndCycle(b, FALSE)
                      ELSE [b EXCEPT !.loop = "item", !.i = 1]
  /\ UNCHANGED << news, run, gen, reg, call, tg, sug, sub, sup >>

\* process_content and, for a text, _handle_tweet_suggestion are over for
\* item i ("unsent": the send raised inside _handle_tweet_suggestion, which
\* catches it; "raise": process_content raised, which only the except branch
\* of the loop catches); then `if not self.running: break`.  Once the
\* Application is shut down, send_message raises as well.
BaseItemDone ==
  /\ base.loop = "item"
  /\ LET outcome == base.items[base.i]
         b == IF outcome = "text" /\ base.app = "started"
              THEN [base EXCEPT !.offered = @ \cup {base.i}]
              ELSE base
     IN  base' = IF outcome = "raise" THEN EndCycle(base, TRUE)
                 ELSE IF base.i < Len(base.items) /\ base.running
                 THEN [b EXCEPT !.i = @ + 1]
                 ELSE EndCycle(b, FALSE)
  /\ UNCHANGED << news, run, gen, reg, call, tg, sug, sub, sup >>

\* the sleep is over: `while self.running`
BaseSleepDone ==
  /\ base.loop = "sleep"
  /\ base.cycle < MaxCycles \/ ~base.running
  /\ base' = IF base.running
             THEN [base EXCEPT !.loop = "fetch", !.cycle = @ + 1, !.delay = 0]
             ELSE [base EXCEPT !.loop = "over", !.delay = 0]
  /\ UNCHANGED << news, run, gen, reg, call, tg, sug, sub, sup >>

\* BaseBot.stop up to its first await: running = False, then updater.stop().
\* Updater.stop raises RuntimeError when the updater is not running
\* (python-telegram-bot 20), and stop() has no handler for it.
BaseStop ==
  /\ base.stops < MaxStops
  /\ ~base.stopping
  /\ base' = IF base.polling
             THEN [base EXCEPT !.running = FALSE, !.stopping = TRUE,
                               !.stops = @ + 1, !.raised = FALSE]
             ELSE [base EXCEPT !.running = FALSE, !.stops = @ + 1,
                               !.raised = TRUE]
  /\ UNCHANGED << news, run, gen, reg, call, tg, sug, sub, sup >>

\* the rest of BaseBot.stop: the updater has stopped, then
\* application.stop() and application.shutdown()
BaseStopDone ==
  /\ base.stopping
  /\ base' = [base EXCEPT !.stopping = FALSE, !.polling = FALSE,
                          !.app = "shutdown"]
  /\ UNCHANGED << news, run, gen, reg, call, tg, sug, sub, sup >>

\* the callback data BaseBot.button_callback is exercised with: the three
\* buttons of _send_tweet_for_approval, and data of no button
BaseTokens == {"post", "skip", "edit", "other"}

\* BaseBot._post_to_x: XPoster.post_tweet returns a bool, `result.get`
\* raises AttributeError on it, and the except branch returns False
_post_to_x(tweet_text) == FALSE

\* BaseBot.button_callback: the reply it edits into the message ("none": no
\* reply; "raise": it raised before any).  marker: the text of the message
\* holds "**Suggested Tweet:**".
base_button_callback(data, marker) ==
  IF data = "post"
  THEN IF marker
       THEN IF _post_to_x("tweet") THEN "posted" ELSE "failed"
       ELSE "none"
  ELSE IF data = "skip" THEN "skipped"
  ELSE IF data = "edit" THEN IF marker THEN "not_implemented" ELSE "raise"
  ELSE "none"

\* a callback query arrives while the bot polls
BaseButton ==
  /\ base.polling
  /\ \E data \in BaseTokens, marker \in BOOLEAN :
       base' = [base EXCEPT !.data = data,
                            !.reply = base_button_callback(data, marker)]
  /\ UNCHANGED << news, run, gen, reg, call, tg, sug, sub, sup >>

InitBase ==
  /\ phase = "new"
  /\ feed = 0
  /\ creds = CHOOSE c \in CredConfigs : ~HasCredentials(c)
  /\ sent_articles = {}
  /\ pending_tweets = NoPending
  /\ chat = {}
  /\ cycles = [inv \in Invokers |-> Idle]
  /\ nCycles = 0
  /\ dispatches = {}
  /\ hpc = "idle"
  /\ act = NoAct
  /\ latest_reply = "none"
  /\ base = BaseNew /\ run = NoRun /\ gen = NoGen /\ reg = RegNew
  /\ call = NoCall
  /\ tg = NoTG
  /\ sug = NoSug /\ sub = NoSub /\ sup = NoSup

NextBase ==
  \/ BaseStart
  \/ BaseStartDone
  \/ BaseFetchDone
  \/ BaseItemDone
  \/ BaseSleepDone
  \/ BaseStop
  \/ BaseStopDone
  \/ BaseButton

SpecBase == InitBase /\ [][NextBase]_vars

\* C15 (as the spec states it): whenever _main_loop sleeps before its next
\* cycle, after a failed cycle as after any other, it sleeps the configured
\* interval.
C15_IntervalUnchanged ==
  base.loop = "sleep" => base.delay = base.frequency * SecondsPerHour

\* C15 (amended): a failed cycle leaves the runtime running, and the loop
\* sleeps 300 seconds after it, the configured interval after any other
\* cycle; the loop is over only once the bot is stopped.
C15_RetryAfterFailure ==
  /\ base.loop = "sleep"
       => base.delay = IF base.failed THEN RetrySeconds
                       ELSE base.frequency * SecondsPerHour
  /\ (base.loop \in {"sleep", "over"} /\ base.failed /\ base.stops = 0)
       => (base.running /\ base.loop = "sleep")
  /\ base.loop = "over" => ~base.running

\* a cycle begins after the sleep that followed a failed cycle
C15_Witness ==
  /\ base.loop = "fetch"
  /\ base.cycle >= 2
  /\ base.failed
  /\ base.running

C19_AlwaysReplies ==
  base.data # "none" => base.reply \notin {"none", "raise"}

\* C20 (as the spec states it): a second stop() raises no error.
C20_StopIdempotent ==
  base.stops >= 2 => ~base.raised

\* ------------------------------------------------- fetch from the sources
\* One call of RSSFetcher.fetch_latest_articles with three configured
\* sources.  The first n entries of Catalog are on line, each in the feed of
\* its source, in Catalog order.  Of the log only the warning and error
\* entries are kept (the info entries say nothing of a failure).

\* the source whose feed lists each entry of Catalog
SourceOf == << 1, 2, 3, 3, 1, 2, 3, 1 >>

Sources == 1..3

\* the feed of source j when the first n entries of Catalog are on line
SourceFeed(j, n) ==
  SelectSeq([a \in 1..n |-> a], LAMBDA a : SourceOf[a] = j)

\* how requests.get answers for a source: "ok"; "http": raise_for_status
\* raises (as any error other than the two below); "timeout": Timeout or
\* ConnectionError at every attempt; "flaky": at the first attempt only
FetchModes == {"ok", "http", "timeout", "flaky"}

Delivers(mode) == mode \in {"ok", "flaky"}

\* a failing source delivers its feed all the same
SourceArticles_Always(mode, entries) == entries

\* what _fetch_from_source returns: the entries of the feed, or [] from its
\* `except Exception`
SourceArticles(mode, entries) ==
  IF Delivers(mode) THEN entries ELSE << >>

\* the end of fetch_latest_articles: dedup, sorted (which may raise), top 10
FetchFinish(r) ==
  IF FetchRaises(r.all_articles)
  THEN [r EXCEPT !.pc = "raised"]
  ELSE [r EXCEPT !.pc = "done",
                 !.result = fetch_latest_articles(r.all_articles)]

\* fetch_latest_articles is called: the feeds and the state of the sources
FetchBegin ==
  /\ run.pc = "none"
  /\ \E n \in 0..Len(Catalog), modes \in [Sources -> FetchModes] :
       run' = [NoRun EXCEPT !.pc = "source", !.n = n, !.k = 1, !.attempt = 1,
                            !.modes = << modes[1], modes[2], modes[3] >>]
  /\ UNCHANGED << news, base, gen, reg, call, tg, sug, sub, sup >>

\* the retry loop goes on for ever
GivesUp_Never(attempt) == FALSE

\* `if attempt == max_retries - 1: raise e` (attempts are counted from 1
\* here, from 0 in the code)
GivesUp(attempt) == attempt = MaxAttempts

\* whether requests.get raises Timeout or ConnectionError at this attempt
TimesOut(mode, attempt) ==
  mode = "timeout" \/ (mode = "flaky" /\ attempt = 1)

\* _fetch_from_source for source k from one requests.get to its next await
\* or its return.  After a Timeout or ConnectionError it logs a warning and
\* sleeps before the next attempt, unless this was the last one: then the
\* error is raised again.  A raised error, as any other error of the first
\* attempt, goes to `except Exception`, which logs an error and returns [].
FetchSource ==
  /\ run.pc = "source"
  /\ LET mode == run.modes[run.k]
         r == [run EXCEPT !.tries[run.k] = @ + 1]
     IN  run' =
           IF TimesOut(mode, run.attempt) /\ ~GivesUp(run.attempt)
           THEN [r EXCEPT !.pc = "retry",
                          !.log = Append(@, [level |-> "warning", source |-> run.k])]
           ELSE [r EXCEPT !.pc = "pause",
                          !.all_articles = @ \o SourceArticles(mode, SourceFeed(run.k, run.n)),
                          !.log = IF Delivers(mode) THEN @
                                  ELSE Append(@, [level |-> "error", source |-> run.k])]
  /\ UNCHANGED << news, base, gen, reg, call, tg, sug, sub, sup >>

\* `await asyncio.sleep(1)` is over: the next attempt for source k
FetchRetry ==
  /\ run.pc = "retry"
  /\ run' = [run EXCEPT !.pc = "source", !.attempt = @ + 1, !.naps[run.k] = @ + 1]
  /\ UNCHANGED << news, base, gen, reg, call, tg, sug, sub, sup >>

\* `await asyncio.sleep(0.5)` is over: the next source, or the end
FetchPause ==
  /\ run.pc = "pause"
  /\ run' = IF run.k < Len(run.modes)
            THEN [run EXCEPT !.pc = "source", !.k = @ + 1, !.attempt = 1]
            ELSE FetchFinish(run)
  /\ UNCHANGED << news, base, gen, reg, call, tg, sug, sub, sup >>

NextFetch ==
  \/ FetchBegin
  \/ FetchSource
  \/ FetchRetry
  \/ FetchPause

SpecFetch == InitBase /\ [][NextFetch]_vars

\* the warning or error entries of the log about source j
Entries(level, j) ==
  SelectSeq(run.log, LAMBDA e : e.level = level /\ e.source = j)

Range(s) == {s[i] : i \in 1..Len(s)}

\* the fetch is over, sources 1 and 3 delivered and source 2 threw
SecondSourceFailed ==
  /\ run.pc \in {"done", "raised"}
  /\ run.modes[1] = "ok" /\ run.modes[3] = "ok"
  /\ run.modes[2] \in {"http", "timeout"}

Drafts(by, lens) ==
  [raised |-> FALSE, tweets |-> [k \in 1..Len(lens) |-> [by |-> by, len |-> lens[k]]]]

Raised == [raised |-> TRUE, tweets |-> << >>]

\* the answers of the OpenAI call: it raised, or the numbered lines
\* _parse_tweets_from_response finds in it, of 280 characters or of 281
OpenAIOutcomes ==
  {Raised} \cup {Drafts("openai", lens) : lens \in SeqsUpTo({TweetLimit, TweetLimit + 1}, MaxResponse)}

\* what the three templates of a fallback generator give: it raised, or the
\* drafts among the three that fit (a template appends a draft only if
\* len(draft) <= 280)
TemplateOutcomes(by) ==
  {Raised} \cup {Drafts(by, [k \in 1..n |-> TweetLimit]) : n \in 0..MaxDrafts}

\* the drafts of the service are returned as they come
_generate_with_openai_Unfiltered(response) ==
  IF response.raised THEN << >> ELSE Take(response.tweets, MaxDrafts)

\* TextGenerator._generate_with_openai: the drafts of at most 280
\* characters, three at most; [] when the call raised
_generate_with_openai(response) ==
  IF response.raised THEN << >>
  ELSE Take(SelectSeq(response.tweets, LAMBDA t : t.len <= TweetLimit), MaxDrafts)

\* TextGenerator._generate_fallback_tweets: [] when it raised
_generate_fallback_tweets(templates) ==
  IF templates.raised THEN << >> ELSE templates.tweets

\* TextGenerator._generate_fallback_tweets_with_summary: its own drafts, or
\* those of _generate_fallback_tweets when it has none or raised
_generate_fallback_tweets_with_summary(analysis, templates) ==
  IF analysis.raised \/ analysis.tweets = << >>
  THEN _generate_fallback_tweets(templates)
  ELSE analysis.tweets

\* generate_tweets from `if tweets: return tweets` on
GenReturn(g, tweets) ==
  [g EXCEPT !.pc = "returned",
            !.result = IF tweets # << >> THEN tweets
                       ELSE _generate_fallback_tweets_with_summary(g.analysis, g.templates)]

\* generate_tweets is called: with a key it awaits the OpenAI call, without
\* one it returns the fallback drafts
GenBegin ==
  /\ gen.pc = "none"
  /\ \E api_key \in BOOLEAN, analysis \in TemplateOutcomes("analysis"),
        templates \in TemplateOutcomes("template") :
       LET g == [NoGen EXCEPT !.api_key = api_key, !.analysis = analysis,
                              !.templates = templates]
       IN  gen' = IF api_key THEN [g EXCEPT !.pc = "openai"]
                  ELSE GenReturn(g, << >>)
  /\ UNCHANGED << news, base, run, reg, call, tg, sug, sub, sup >>

\* the OpenAI call is over
GenOpenAIDone ==
  /\ gen.pc = "openai"
  /\ \E response \in OpenAIOutcomes :
       gen' = GenReturn([gen EXCEPT !.response = response],
                        _generate_with_openai(response))
  /\ UNCHANGED << news, base, run, reg, call, tg, sug, sub, sup >>

\* NewsBot._process_article after generate_tweets: without drafts it logs a
\* warning and returns, with drafts it sends the suggestions
GenProcessed ==
  /\ gen.pc = "returned"
  /\ gen' = [gen EXCEPT !.pc = "done",
                        !.told = IF gen.result = << >> THEN "none" ELSE "suggestions"]
  /\ UNCHANGED << news, base, run, reg, call, tg, sug, sub, sup >>

NextDraft ==
  \/ GenBegin
  \/ GenOpenAIDone
  \/ GenProcessed

SpecDraft == InitBase /\ [][NextDraft]_vars

\* the drafting service is absent, failed, or gave no draft that fits
DraftingUnavailable ==
  \/ ~gen.api_key
  \/ gen.response.raised
  \/ \A k \in 1..Len(gen.response.tweets) : gen.response.tweets[k].len > TweetLimit

\* C18: when the drafting service is absent, fails or gives no usable draft,
\* generate_tweets returns what the fallback generator gives (the drafts of
\* the content analysis, or those of the plain templates when it has none
\* or raised, or nothing when these raised too), none of them a draft of
\* the service, and the owner is sent the suggestions or nothing, never an
\* error.
C18_FallbackReturned ==
  (gen.pc \in {"returned", "done"} /\ DraftingUnavailable)
    => /\ gen.result =
            IF ~gen.analysis.raised /\ Len(gen.analysis.tweets) > 0
            THEN gen.analysis.tweets
            ELSE IF gen.templates.raised THEN << >> ELSE gen.templates.tweets
       /\ \A k \in 1..Len(gen.result) :
            gen.result[k].by # "openai" /\ gen.result[k].len <= TweetLimit
       /\ gen.pc = "done"
            => gen.told = IF gen.result = << >> THEN "none" ELSE "suggestions"

\* the service answered with drafts that are all too long, and the owner
\* got the drafts of the plain templates
C18_Witness ==
  /\ gen.pc = "done"
  /\ gen.api_key
  /\ ~gen.response.raised
  /\ Len(gen.response.tweets) > 0
  /\ DraftingUnavailable
  /\ gen.result # << >>
  /\ gen.result[1].by = "template"
  /\ gen.told = "suggestions"

\* ------------------------------------------------------------ cancellation
\* The awaits of _main_loop return: fetch_content and process_content come
\* back, and a sleep ends.
SpecBaseFair ==
  /\ SpecBase
  /\ WF_vars(BaseFetchDone)
  /\ WF_vars(BaseItemDone)
  /\ WF_vars(BaseSleepDone)

\* stop() has been called (start() is not called again after it)
Stopped == base.stops >= 1

\* C21 (as the spec states it): once stop() has been called no suggestion
\* is dispatched any more, no further item is begun and no new cycle starts.
C21_NothingAfterStop ==
  [][Stopped => /\ base'.offered \subseteq base.offered
                /\ base'.i <= base.i
                /\ base'.cycle = base.cycle]_vars

\* C21 (amended): once stop() has been called the loop begins no further
\* item and no new cycle; the one item in flight is completed, and its
\* suggestion is the only one that can still be dispatched; the next step of
\* the loop is its last, and the loop does terminate.
C21_InFlightItemOnly ==
  /\ [][Stopped => /\ (base'.offered \ base.offered) \subseteq
                        (IF base.loop = "item" THEN {base.i} ELSE {})
                   /\ base'.i <= base.i
                   /\ base'.cycle = base.cycle
                   /\ base'.loop # base.loop => base'.loop = "over"]_vars
  /\ (Stopped ~> base.loop \in {"none", "over"})

\* stop() came while the first of two items was in flight: its suggestion
\* was dispatched, the second item was never begun, the loop is over
C21_Witness ==
  /\ Stopped
  /\ base.loop = "over"
  /\ Len(base.items) >= 2
  /\ base.i = 1
  /\ base.offered = {1}

\* C22 (as the spec states it): a suggestion is dispatched only by a bot
\* that is attached to the messaging endpoint (its polling is on).
C22_AttachedBeforeDispatch ==
  [][(base'.offered \ base.offered) # {} => base.polling]_vars

\* ------------------------------------------------------------ config store
\* The Config Store is one YAML file, botfather/bot_registry.yaml: a mapping
\* from bot id to the record of the bot.  The BotFather is the only writer;
\* each of its operations loads the file, changes the mapping and saves it
\* with no await in between.  A bot process reads its record at launch.
\* A record here is the configuration add_bot was given (c), 'id', 'active',
\* 'created_at' and 'updated_at' (0: the key is absent); times are the
\* count of writes so far.

NoConfig == [i \in {} |-> NoRecord]

\* yaml.dump of the mapping: one entry per bot, a boolean as its YAML text
Dump(config) ==
  { << i, config[i].c, IF config[i].active THEN "true" ELSE "false",
       config[i].created_at, config[i].updated_at >> : i \in DOMAIN config }

\* yaml.safe_load of the file
Load(file) ==
  [i \in {l[1] : l \in file} |->
     LET l == CHOOSE l \in file : l[1] = i
     IN  [id |-> l[1], c |-> l[2], active |-> (l[3] = "true"),
          created_at |-> l[4], updated_at |-> l[5]]]

\* ConfigManager._load_config: {} when the file cannot be opened
_load_config(r) == IF r.exists THEN Load(r.file) ELSE NoConfig

\* ConfigManager._save_config
_save_config(r, config) == [r EXCEPT !.exists = TRUE, !.file = Dump(config)]

\* ConfigManager.__init__: _ensure_config_file_exists saves {} when there is
\* no file
ConfigManager(r) == IF r.exists THEN r ELSE _save_config(r, NoConfig)

\* ConfigManager.add_bot: the mapping with the new record
add_bot(config, id, c, now) ==
  [i \in DOMAIN config \cup {id} |->
     IF i = id
     THEN [id |-> id, c |-> c, active |-> FALSE, created_at |-> now, updated_at |-> 0]
     ELSE config[i]]

\* ConfigManager.get_bot
get_bot(config, id) == IF id \in DOMAIN config THEN config[id] ELSE NoRecord

\* update_bot stamps created_at as well
update_bot_Renewed(config, id, active, now) ==
  IF id \in DOMAIN config
  THEN [config EXCEPT ![id].active = active, ![id].created_at = now,
                      ![id].updated_at = now]
  ELSE config

\* ConfigManager.update_bot with {'active': active} (update_bot_status): the
\* mapping it saves (the same mapping, not saved, for an id without record)
update_bot(config, id, active, now) ==
  IF id \in DOMAIN config
  THEN [config EXCEPT ![id].active = active, ![id].updated_at = now]
  ELSE config

\* delete_bot leaves the record in place
delete_bot_Kept(config, id) == config

\* ConfigManager.delete_bot: the mapping it saves; it returns True exactly
\* when the id had a record
delete_bot(config, id) == [i \in DOMAIN config \ {id} |-> config[i]]

\* the bot process runs although it found no record
main_Starts(config, id) == [status |-> "running", code |-> 0, runtime |-> TRUE]

\* main of news_bot.py and of web_scraper_bot_runner.py after
\* ConfigManager(): sys.exit(1) when get_bot finds no record, else the bot
\* object is created and started
main(config, id) ==
  IF get_bot(config, id) = NoRecord
  THEN [status |-> "exited", code |-> 1, runtime |-> FALSE]
  ELSE [status |-> "running", code |-> 0, runtime |-> TRUE]

\* what an operation did, for the claims
Did(op, id, c, ok, rec, before) ==
  [op |-> op, id |-> id, c |-> c, ok |-> ok, rec |-> rec, before |-> before]

\* BotFather._finalize_bot_creation: add_bot with a fresh id
AddBot ==
  /\ reg.clock < MaxWrites
  /\ \E c \in BotConfigs, id \in Ids \ reg.used :
       LET r == ConfigManager(reg)
           config == _load_config(r)
           now == reg.clock + 1
       IN  reg' = [_save_config(r, add_bot(config, id, c, now)) EXCEPT
                     !.used = @ \cup {id}, !.clock = now,
                     !.last = Did("add", id, c, TRUE, NoRecord, config)]
  /\ UNCHANGED << news, base, run, gen, call, tg, sug, sub, sup >>

\* ConfigManager.get_bot, of any id
GetBot ==
  /\ \E id \in Ids :
       LET r == ConfigManager(reg)
           config == _load_config(r)
       IN  reg' = [r EXCEPT !.last = Did("get", id, "", id \in DOMAIN config,
                                         get_bot(config, id), config)]
  /\ UNCHANGED << news, base, run, gen, call, tg, sug, sub, sup >>

\* ConfigManager.delete_bot, of any id
DeleteBot ==
  /\ \E id \in Ids :
       LET r == ConfigManager(reg)
           config == _load_config(r)
           ok == id \in DOMAIN config
       IN  reg' = [(IF ok THEN _save_config(r, delete_bot(config, id)) ELSE r)
                     EXCEPT !.last = Did("delete", id, "", ok, NoRecord, config)]
  /\ UNCHANGED << news, base, run, gen, call, tg, sug, sub, sup >>

\* a bot process reaches main with a bot id: by hand, or as the process the
\* BotFather spawned
Launch ==
  /\ \E id \in Ids :
       /\ reg.child[id].status = "none"
       /\ LET r == ConfigManager(reg)
              config == _load_config(r)
          IN  reg' = [r EXCEPT !.child[id] = main(config, id),
                               !.last = Did("launch", id, "", id \in DOMAIN config,
                                            NoRecord, config)]
  /\ UNCHANGED << news, base, run, gen, call, tg, sug, sub, sup >>

\* BotFather._start_bot_process of one of the user's bots up to
\* `await asyncio.sleep(2)`: the process is spawned
FatherStart ==
  /\ \E id \in Ids :
       LET r == ConfigManager(reg)
           config == _load_config(r)
       IN  /\ id \in DOMAIN config
           /\ id \notin reg.bot_processes
           /\ id \notin reg.spawned
           /\ reg.child[id].status # "running"
           /\ reg' = [r EXCEPT !.spawned = @ \cup {id}, !.child[id] = NoChild,
                               !.last = Did("spawn", id, "", TRUE, NoRecord, config)]
  /\ UNCHANGED << news, base, run, gen, call, tg, sug, sub, sup >>

\* _start_bot_process after the sleep: a process that has not exited is
\* kept in bot_processes and the bot is marked active
FatherStartDone ==
  /\ reg.clock < MaxWrites
  /\ \E id \in reg.spawned :
       LET config == _load_config(reg)
           now == reg.clock + 1
           alive == reg.child[id].status # "exited"
       IN  reg' = IF alive
                  THEN [_save_config(reg, update_bot(config, id, TRUE, now)) EXCEPT
                          !.spawned = @ \ {id}, !.bot_processes = @ \cup {id},
                          !.clock = IF id \in DOMAIN config THEN now ELSE @,
                          !.last = Did("start", id, "", TRUE, NoRecord, config)]
                  ELSE [reg EXCEPT !.spawned = @ \ {id},
                                   !.last = Did("start", id, "", FALSE, NoRecord, config)]
  /\ UNCHANGED << news, base, run, gen, call, tg, sug, sub, sup >>

\* BotFather._stop_bot_process of a bot in bot_processes: the process is
\* terminated and the bot is marked inactive
FatherStop ==
  /\ reg.clock < MaxWrites
  /\ \E id \in reg.bot_processes :
       LET config == _load_config(reg)
           now == reg.clock + 1
       IN  reg' = [_save_config(reg, update_bot(config, id, FALSE, now)) EXCEPT
                     !.bot_processes = @ \ {id},
                     !.child[id] = [status |-> "exited", code |-> 0 - 15, runtime |-> FALSE],
                     !.clock = IF id \in DOMAIN config THEN now ELSE @,
                     !.last = Did("stop", id, "", TRUE, NoRecord, config)]
  /\ UNCHANGED << news, base, run, gen, call, tg, sug, sub, sup >>

NextConfig ==
  \/ AddBot
  \/ GetBot
  \/ DeleteBot
  \/ Launch
  \/ FatherStart
  \/ FatherStartDone
  \/ FatherStop

SpecConfig == InitBase /\ [][NextConfig]_vars

\* a bot process reaches main with this step
Launches(id) ==
  /\ reg'.last.op = "launch"
  /\ reg'.last.id = id
  /\ reg.child[id].status = "none"

\* C23: a bot process launched with an id that has no record exits with
\* status 1 and creates no bot object; the records of the Config Store, the
\* BotFather's bot_processes and the other bot processes stay as they are,
\* and nothing launches the process again by itself.
C23_MissingConfigFatal ==
  [][\A id \in Ids :
       (Launches(id) /\ id \notin DOMAIN _load_config(reg))
         => /\ reg'.child[id] = [status |-> "exited", code |-> 1, runtime |-> FALSE]
            /\ _load_config(reg') = _load_config(reg)
            /\ reg'.bot_processes = reg.bot_processes
            /\ reg'.spawned = reg.spawned
            /\ \A i \in Ids \ {id} : reg'.child[i] = reg.child[i]]_vars

\* a process was launched for an id without record while the store holds
\* the record of another bot, and it has exited with status 1
C23_Witness ==
  /\ reg.last.op = "launch"
  /\ ~reg.last.ok
  /\ reg.child[reg.last.id].status = "exited"
  /\ reg.child[reg.last.id].code = 1
  /\ DOMAIN _load_config(reg) # {}

\* ---------------------------------------------------------- external calls
\* The calls made for one item, one after the other: requests.get of each
\* source feed, the OpenAI call of _generate_with_openai, requests.post of
\* post_tweet.  A service answers (with a result or an error) or stays
\* silent for ever; a silent call ends only if something bounds it.

\* what bounds a call to the service: the timeout argument of the call
\* (timeout=8 of requests.get, timeout=10 of requests.post), or for
\* openai.ChatCompletion.create, which is called without one, the request
\* timeout the openai library applies by default
TimeoutOf(service) ==
  CASE service = "source"     -> "argument"
    [] service = "drafting"   -> "library"
    [] service = "publishing" -> "argument"

\* no call is bounded
Bounded_Never(service) == FALSE

Bounded(service) == TimeoutOf(service) \in {"argument", "library"}

\* the call of the stage is over with this result: the next stage
CallOver(c, result) ==
  LET done == [c EXCEPT !.results[c.stage] = result]
  IN  IF c.stage < Len(Stages)
      THEN [done EXCEPT !.pc = "calling", !.stage = @ + 1, !.attempt = 1]
      ELSE [done EXCEPT !.pc = "done"]

\* a cycle reaches its first call
CallBegin ==
  /\ call.pc \in {"idle", "done"}
  /\ call.cycle < MaxCycles
  /\ call' = [NoCall EXCEPT !.pc = "calling", !.stage = 1, !.attempt = 1,
                            !.cycle = call.cycle + 1]
  /\ UNCHANGED << news, base, run, gen, reg, tg, sug, sub, sup >>

\* the service answers: with what was asked for, or with an error, which
\* the caller's handler turns into the failure of this call ([] from
\* _fetch_from_source and _generate_with_openai, False from post_tweet)
CallAnswer ==
  /\ call.pc = "calling"
  /\ \E result \in {"ok", "failed"} : call' = CallOver(call, result)
  /\ UNCHANGED << news, base, run, gen, reg, tg, sug, sub, sup >>

\* the service does not answer
CallSilent ==
  /\ call.pc = "calling"
  /\ call' = [call EXCEPT !.pc = "waiting"]
  /\ UNCHANGED << news, base, run, gen, reg, tg, sug, sub, sup >>

\* the bound of the call expires: a Timeout error, which is the failure of
\* this call; _fetch_from_source first tries the source once more
CallExpire ==
  /\ call.pc = "waiting"
  /\ Bounded(Stages[call.stage])
  /\ call' = IF Stages[call.stage] = "source" /\ call.attempt < MaxAttempts
             THEN [call EXCEPT !.pc = "calling", !.attempt = @ + 1]
             ELSE CallOver(call, "expired")
  /\ UNCHANGED << news, base, run, gen, reg, tg, sug, sub, sup >>

NextCalls ==
  \/ CallBegin
  \/ CallAnswer
  \/ CallSilent
  \/ CallExpire

\* a call that was made is answered or not, and a bound that is set expires
SpecCalls ==
  /\ InitBase
  /\ [][NextCalls]_vars
  /\ WF_vars(CallAnswer \/ CallSilent)
  /\ WF_vars(CallExpire)

Through(j) ==
  \/ run.pc \in {"done", "raised"}
  \/ run.pc # "none" /\ (run.k > j \/ (run.k = j /\ run.pc = "pause"))

\* C25: a source is tried at most twice in one fetch, with a sleep between
\* two attempts; a source that failed at its last attempt has contributed
\* nothing, and the fetch goes on to the next source (at the end every
\* source was tried).
C25_BoundedRetry ==
  \A j \in Sources :
    /\ run.tries[j] <= MaxAttempts
    /\ Through(j) => run.naps[j] = run.tries[j] - 1
    /\ (Through(j) /\ run.modes[j] = "timeout")
         => /\ run.tries[j] = MaxAttempts
            /\ \A a \in Range(run.all_articles) : SourceOf[a] # j
    /\ (Through(j) /\ run.modes[j] = "http") => run.tries[j] = 1
    /\ run.pc \in {"done", "raised"} => run.tries[j] >= 1

\* source 2 timed out twice, source 3 was fetched after it and the fetch
\* returned items
C25_Witness ==
  /\ run.pc = "done"
  /\ run.modes[2] = "timeout"
  /\ run.tries = << 1, 2, 1 >>
  /\ run.naps[2] = 1
  /\ SourceFeed(2, run.n) # << >>
  /\ \E a \in Range(run.result) : SourceOf[a] = 3


\* ------------------------------------------------- the template generators
\* The generators of src/utils/text_generator.py on one content item.  A
\* text is taken by its length (len() of the string, in code points), and
\* the sentences of the templates are written out so that their lengths are
\* those of the source.  The pictograph a template begins with is Mark
\* characters long in the source file.
\* A headline is its words, separated by single spaces, and its topic:
\* "ai" when it holds the letters "ai" and no other keyword of the
\* generators, "plain" when it holds no keyword at all.  The summary holds no
\* keyword of its own.

Mark == 4

Min(a, b) == IF a <= b THEN a ELSE b

RECURSIVE Sum(_)
Sum(lens) == IF lens = << >> THEN 0 ELSE lens[1] + Sum(Tail(lens))

\* len(" ".join(words))
Joined(words) == IF words = << >> THEN 0 ELSE Sum(words) + Len(words) - 1

\* the headlines: 1..MaxWords words of one length each
WordLens == {2, 9, 40}
Headlines ==
  {[words |-> [k \in 1..n |-> w], topic |-> t] :
     n \in 1..MaxWords, w \in WordLens, t \in {"plain", "ai"}}

\* lengths of links (none, a shortened one, longer ones) and of summaries
\* (analysed when longer than 50 characters)
LinkLens == {0, 23, 60, 90, 120}
SummaryLens == {0, 50, 51}

\* " ".join(self._generate_hashtags(headline))
_generate_hashtags(headline) ==
  IF headline.topic = "ai" THEN Len("#AI #MachineLearning") ELSE Len("#Tech #News")

\* TextGenerator._extract_key_points: main_point and details
_extract_key_points(headline) ==
  IF headline.topic = "ai"
  THEN [main_point |-> Len("AI development update"),
        details |-> Len("Another step forward in artificial intelligence capabilities.")]
  ELSE IF Len(headline.words) > 6
  THEN [main_point |-> Joined(Take(headline.words, 6)) + Len("..."),
        details |-> Len("Industry experts are watching this development closely.")]
  ELSE [main_point |-> Min(Joined(headline.words), 50) + Len("..."),
        details |-> Len("This could have broader implications for the tech sector.")]

_generate_impact_analysis(headline) ==
  IF headline.topic = "ai"
  THEN Len("AI advances like this could transform how we work and interact with technology.")
  ELSE Len("Developments like this often have ripple effects across the tech ecosystem.")

_generate_discussion_question(headline) ==
  IF headline.topic = "ai"
  THEN Len("How will AI developments like this change your daily workflow?")
  ELSE Len("How do you think this will impact the industry?")

\* TextGenerator._analyze_article_content of the headline and a summary
_analyze_article_content(headline) ==
  IF headline.topic = "ai"
  THEN [impact |-> Len("AI developments like this reshape competitive advantages across industries."),
        sector |-> Len("AI"),
        insight |-> Len("Market movements like this often reflect deeper shifts in consumer behavior and enterprise needs."),
        future_question |-> Len("Will this AI advancement democratize capabilities or concentrate them further among tech giants?")]
  ELSE [impact |-> Len("Technology shifts like this often have broader implications than initially apparent."),
        sector |-> Len("technology"),
        insight |-> Len("Market movements like this often reflect deeper shifts in consumer behavior and enterprise needs."),
        future_question |-> Len("What second-order effects might this development trigger across adjacent industries?")]

\* a text as it was generated: nothing was cut from it
Whole(by, len) == [by |-> by, len |-> len, full |-> len]

\* `if len(tweet) <= 250 and link: tweet += f"\n\n{link}"`
WithLink(tweet, link) ==
  IF tweet <= 250 /\ link > 0 THEN tweet + Len("\n\n") + link ELSE tweet

\* every draft is appended
Kept_Always(tweets, by, tweet) == Append(tweets, Whole(by, tweet))

\* `if len(tweet) <= 280: tweets.append(tweet)`
Kept(tweets, by, tweet) ==
  IF tweet <= TweetLimit THEN Append(tweets, Whole(by, tweet)) ELSE tweets

\* TextGenerator._generate_fallback_tweets(headline, link): the three
\* templates, each with the link if there is room, each kept if it fits
FallbackTweets(headline, link) ==
  LET clean_headline == Joined(headline.words)
      hashtag_string == _generate_hashtags(headline)
      summary_points == _extract_key_points(headline)
      tweet1 == Mark + Len(" ") + summary_points.main_point + Len("\n\n")
                  + summary_points.details + Len("\n\n")
                  + Len("This could reshape how the industry approaches innovation.")
                  + Len("\n\n") + hashtag_string
      tweet2 == Mark + Len(" ") + _generate_impact_analysis(headline) + Len("\n\n")
                  + Len("Key takeaway from: ") + Min(clean_headline, 80) + Len("...")
                  + Len("\n\n") + hashtag_string
      tweet3 == Mark + Len(" ") + _generate_discussion_question(headline) + Len("\n\n")
                  + Len("Triggered by: ") + Min(clean_headline, 70) + Len("...")
                  + Len("\n\n") + Len("What's your take? ") + Mark
                  + Len("\n\n") + hashtag_string
  IN  Kept(Kept(Kept(<< >>, "template", WithLink(tweet1, link)),
                "template", WithLink(tweet2, link)),
           "template", WithLink(tweet3, link))

\* TextGenerator._generate_fallback_tweets_with_summary(headline, summary,
\* link): the three templates of the content analysis when the summary has
\* more than 50 characters, those of _generate_fallback_tweets when none of
\* them was kept
FallbackTweetsWithSummary(headline, summary, link) ==
  LET hashtag_string == _generate_hashtags(headline)
      analysis == _analyze_article_content(headline)
      tweet1 == Mark + Len(" Industry Impact Alert:") + Len("\n\n") + analysis.impact
                  + Len("\n\n") + Len("This shift in ") + analysis.sector
                  + Len(" could redefine competitive landscapes.")
                  + Len("\n\n") + hashtag_string
      tweet2 == Mark + Len(" Strategic Perspective:") + Len("\n\n") + analysis.insight
                  + Len("\n\n")
                  + Len("The timing suggests this is more than just market positioning.")
                  + Len("\n\n") + hashtag_string
      tweet3 == Mark + Len(" Looking Ahead:") + Len("\n\n") + analysis.future_question
                  + Len("\n\n")
                  + Len("This development opens fascinating questions about where the industry is heading.")
                  + Len("\n\n") + hashtag_string
      tweets == IF summary > 50
                THEN Kept(Kept(Kept(<< >>, "analysis", WithLink(tweet1, link)),
                               "analysis", WithLink(tweet2, link)),
                          "analysis", WithLink(tweet3, link))
                ELSE << >>
  IN  IF tweets = << >> THEN FallbackTweets(headline, link) ELSE tweets


\* `tweet if len(tweet) <= 280 else tweet[:277] + "..."`: a longer text is
\* cut down to 280 characters
CutToFit(by, len) ==
  IF len <= TweetLimit THEN Whole(by, len)
  ELSE [by |-> by, len |-> Min(len, 277) + Len("..."), full |-> len]

\* the answers of the drafting service to a single-tweet prompt: the call
\* raised, or a text (stripped) that is empty, fits, or is too long
ServiceAnswers ==
  {[raised |-> TRUE, len |-> 0]}
    \cup {[raised |-> FALSE, len |-> n] : n \in {0, 140, TweetLimit, TweetLimit + 1}}

\* a single text or None as a list of at most one draft
One(d) == << d >>
None == << >>

\* TextGenerator._generate_newsletter_with_openai and
\* _generate_job_tweet_with_openai after the call: None when it raised,
\* the answer, cut down when it is too long
_generate_newsletter_with_openai(response) ==
  IF response.raised THEN None ELSE One(CutToFit("openai", response.len))

_generate_job_tweet_with_openai(response) ==
  IF response.raised THEN None ELSE One(CutToFit("openai", response.len))

\* " ".join(self._get_niche_hashtags(niche, categories)[:3]) of the niche
\* "general" without categories
_get_niche_hashtags == Len("#News #Update #Trending")

\* TextGenerator._generate_newsletter_fallback: the template of the first
\* article, of the subject, or the generic one
_generate_newsletter_fallback(context) ==
  LET top_article == IF context.title > 60 THEN 60 + Len("...") ELSE context.title
      clean_subject == IF context.subject > 100 THEN 100 + Len("...") ELSE context.subject
      tweet == IF context.articles > 0
               THEN Mark + Len(" Newsletter highlights: ") + top_article
                      + (IF context.articles > 1
                         THEN Len(" + ") + 1 + Len(" more insights") ELSE 0)
                      + Len("\n\n") + _get_niche_hashtags
               ELSE IF context.subject > 0
               THEN Mark + Len(" Weekly roundup: ") + clean_subject
                      + Len("\n\n") + _get_niche_hashtags
               ELSE Mark + Len(" Interesting newsletter insights in ") + Len("general")
                      + Len("\n\n") + _get_niche_hashtags
  IN  One(CutToFit("template", tweet))

\* " ".join(self._get_job_hashtags(title, search_query)[:2])
_get_job_hashtags == Len("#Jobs #Hiring")

\* the first template of the five whose estimate is at most 260, or the
\* first one
RECURSIVE ChooseTemplate(_, _, _)
ChooseTemplate(templates, extra, k) ==
  IF k > Len(templates) THEN templates[1]
  ELSE IF templates[k] + extra <= 260 THEN templates[k]
  ELSE ChooseTemplate(templates, extra, k + 1)

\* TextGenerator._generate_job_tweet_fallback: a template, then the
\* location, the hashtags and the url where they fit
_generate_job_tweet_fallback(job_content) ==
  LET title == job_content.title
      company == job_content.company
      location == job_content.location
      url == job_content.link
      templates == << Mark + Len(" ") + title + Len(" at ") + company,
                      Mark + Len(" New opportunity: ") + title,
                      Mark + Len(" ") + company + Len(" is hiring: ") + title,
                      Mark + Len(" Job alert: ") + title + Len(" at ") + company,
                      Mark + Len(" Now hiring: ") + title >>
      hashtag_text == Len(" ") + _get_job_hashtags
      extra == (IF location > 0 THEN Len(" - ") + location ELSE 0)
                 + hashtag_text + (IF url > 0 THEN 25 ELSE 0)
      base_tweet == ChooseTemplate(templates, extra, 1)
      located == IF location > 0 /\ base_tweet + Len(" - ") + location <= 240
                 THEN base_tweet + Len(" - ") + location ELSE base_tweet
      tagged == IF located + hashtag_text <= 260 THEN located + hashtag_text ELSE located
      linked == IF url > 0 /\ tagged <= 255 THEN tagged + Len(" ") + url ELSE tagged
  IN  One(CutToFit("template", linked))

\* the content items the generators are given
TextLens == {0, 30, 61, 101, 270}
NewsItems ==
  {[NoItem EXCEPT !.words = h.words, !.topic = h.topic, !.summary = s, !.link = l] :
     h \in Headlines, s \in SummaryLens, l \in LinkLens}
Newsletters ==
  {[NoItem EXCEPT !.articles = a, !.title = t, !.subject = s] :
     a \in 0..2, t \in TextLens, s \in TextLens}
Jobs ==
  {[NoItem EXCEPT !.title = t, !.company = c, !.location = p, !.link = l] :
     t \in TextLens \ {0}, c \in {30}, p \in {0, 30}, l \in LinkLens}

HeadlineOf(item) == [words |-> item.words, topic |-> item.topic]

\* what the fallback of a generator gives for an item
Fallback(generator, item) ==
  CASE generator = "_generate_fallback_tweets" ->
         FallbackTweets(HeadlineOf(item), item.link)
    [] generator = "generate_tweets" ->
         FallbackTweetsWithSummary(HeadlineOf(item), item.summary, item.link)
    [] generator = "_generate_newsletter_tweet" -> _generate_newsletter_fallback(item)
    [] generator = "generate_job_tweet" -> _generate_job_tweet_fallback(item)

\* _generate_fallback_tweets is called (as test_system.py does), or
\* generate_tweets without a key
TgNews ==
  /\ tg.pc = "none"
  /\ \E generator \in {"_generate_fallback_tweets", "generate_tweets"},
        item \in NewsItems :
       tg' = [tg EXCEPT !.pc = "returned", !.generator = generator, !.item = item,
                        !.result = Fallback(generator, item)]
  /\ UNCHANGED << news, base, run, gen, reg, call, sug, sub, sup >>

\* _generate_newsletter_tweet or generate_job_tweet is called: with a key
\* it awaits the service, without one it returns the fallback text
TgSingle ==
  /\ tg.pc = "none"
  /\ \E api_key \in BOOLEAN,
        pair \in ({"_generate_newsletter_tweet"} \X Newsletters)
                   \cup ({"generate_job_tweet"} \X Jobs) :
       LET t == [tg EXCEPT !.generator = pair[1], !.item = pair[2], !.api_key = api_key]
       IN  tg' = IF api_key THEN [t EXCEPT !.pc = "openai"]
                 ELSE [t EXCEPT !.pc = "returned", !.result = Fallback(pair[1], pair[2])]
  /\ UNCHANGED << news, base, run, gen, reg, call, sug, sub, sup >>

\* the call of the service is over: `if tweet: return tweet`, else the
\* fallback text
TgOpenAIDone ==
  /\ tg.pc = "openai"
  /\ \E response \in ServiceAnswers :
       LET tweet == IF tg.generator = "generate_job_tweet"
                    THEN _generate_job_tweet_with_openai(response)
                    ELSE _generate_newsletter_with_openai(response)
       IN  tg' = [tg EXCEPT !.pc = "returned", !.response = response,
                            !.result = IF tweet # None /\ tweet[1].len > 0 THEN tweet
                                       ELSE Fallback(tg.generator, tg.item)]
  /\ UNCHANGED << news, base, run, gen, reg, call, sug, sub, sup >>

\* the bot offers what it was given to the owner (process_content returns
\* the text, _send_tweet_for_approval sends it), or nothing when it was
\* given nothing
TgOffer ==
  /\ tg.pc = "returned"
  /\ tg' = [tg EXCEPT !.pc = "offered", !.offered = tg.result]
  /\ UNCHANGED << news, base, run, gen, reg, call, sug, sub, sup >>

NextText ==
  \/ TgNews
  \/ TgSingle
  \/ TgOpenAIDone
  \/ TgOffer

SpecText == InitBase /\ [][NextText]_vars


\* a call of one of the two fallback generators of news drafts has returned
FallbackReturned ==
  /\ tg.pc \in {"returned", "offered"}
  /\ tg.generator \in {"_generate_fallback_tweets", "generate_tweets"}

\* C26: whatever the headline, the summary and the link, every text that
\* _generate_fallback_tweets or _generate_fallback_tweets_with_summary
\* returns has at most 280 characters, the appended link included.
C26_FallbackFits ==
  FallbackReturned
    => \A k \in 1..Len(tg.result) :
         tg.result[k].len <= TweetLimit /\ tg.result[k].by # "openai"

\* a draft was returned with its link appended (it is longer than the 250
\* characters a text may have before the link is added), and another
\* template of the same call did not fit and was left out
C26_Witness ==
  /\ FallbackReturned
  /\ tg.item.link > 0
  /\ Len(tg.result) \in 1..2
  /\ \E k \in 1..Len(tg.result) : tg.result[k].len > 250

\* C27: every draft offered to the owner has at most 280 characters, and
\* none is a longer generated text cut down to fit, whichever generator
\* (news, newsletter, job; service or templates) made it.
C27_DiscardedNeverCut ==
  \A k \in 1..Len(tg.offered) :
    tg.offered[k].len <= TweetLimit /\ tg.offered[k].full = tg.offered[k].len

\* C28: for a headline that is not empty, whatever its link and summary,
\* the fallback generators return at least one draft and at most three.
C28_OneToThreeDrafts ==
  (FallbackReturned /\ tg.item.words # << >>)
    => Len(tg.result) \in 1..MaxDrafts


\* ------------------------------------------------ claims on the config store
\* the BotFather has just started (op "start") or stopped (op "stop") a bot
StartedOrStopped == reg.last.op \in {"start", "stop"}

\* C29: starting or stopping a bot changes nothing in the Config Store but
\* the active status of that bot: every other field of its record and every
\* other record is as it was.
C29_OnlyActiveChanges ==
  StartedOrStopped
    => LET before == reg.last.before
           after == _load_config(reg)
       IN  /\ DOMAIN after = DOMAIN before
           /\ \A i \in DOMAIN before :
                after[i] = IF i = reg.last.id
                           THEN [before[i] EXCEPT !.active = after[i].active]
                           ELSE before[i]

\* C29 as the code has it: starting or stopping a bot changes, in the
\* record of that bot, the active status (True when the started process is
\* still alive after the wait, False on stop) and the time of the last
\* update, which is set to now; nothing else of that record, no other
\* record, and nothing at all when the started process has already exited
\* or the bot has no record any more.
C29_ActiveAndUpdatedAt ==
  StartedOrStopped
    => LET before == reg.last.before
           after == _load_config(reg)
           id == reg.last.id
       IN  /\ DOMAIN after = DOMAIN before
           /\ \A i \in DOMAIN before :
                after[i] = IF i = id /\ reg.last.ok
                           THEN [before[i] EXCEPT !.active = (reg.last.op = "start"),
                                                  !.updated_at = reg.clock]
                           ELSE before[i]

\* a bot was started and is marked active, its time of update was set, and
\* the store holds the record of another bot too
C29_Witness ==
  /\ reg.last.op = "start"
  /\ reg.last.ok
  /\ reg.last.id \in DOMAIN _load_config(reg)
  /\ _load_config(reg)[reg.last.id].active
  /\ _load_config(reg)[reg.last.id].updated_at > 0
  /\ Cardinality(DOMAIN _load_config(reg)) > 1

\* C30: add_bot(c) stores under the id it returns a record with the fields
\* of c, the id and active = False, which get_bot(id) then returns;
\* delete_bot(id) returns True exactly when the id had a record, after it
\* get_bot(id) returns nothing and a second delete_bot(id) returns False;
\* get_bot changes nothing, and each operation leaves the other records as
\* they were.
C30_RoundTrip ==
  [][LET before == _load_config(reg)
         after == _load_config(reg')
         op == reg'.last
         others == DOMAIN before \ {op.id}
         same == /\ DOMAIN after \ {op.id} = others
                 /\ \A i \in others : after[i] = before[i]
     IN  /\ op.op = "add"
           => /\ op.id \notin DOMAIN before
              /\ op.id \in DOMAIN after
              /\ get_bot(after, op.id).c = op.c
              /\ get_bot(after, op.id).id = op.id
              /\ get_bot(after, op.id).active = FALSE
              /\ same
         /\ op.op = "get"
           => /\ op.rec = get_bot(before, op.id)
              /\ after = before
              /\ (reg.last.op = "add" /\ reg.last.id = op.id)
                   => /\ op.rec.c = reg.last.c
                      /\ op.rec.id = op.id
                      /\ op.rec.active = FALSE
              /\ (reg.last.op = "delete" /\ reg.last.id = op.id)
                   => op.rec = NoRecord
         /\ op.op = "delete"
           => /\ op.ok = (op.id \in DOMAIN before)
              /\ get_bot(after, op.id) = NoRecord
              /\ same
              /\ (reg.last.op = "delete" /\ reg.last.id = op.id) => ~op.ok]_vars

\* a bot that was added and deleted is deleted a second time, which
\* returns False, while the store holds the record of another bot
C30_Witness ==
  /\ reg.last.op = "delete"
  /\ ~reg.last.ok
  /\ reg.last.id \in reg.used
  /\ DOMAIN _load_config(reg) # {}


\* ------------------------------------------------- claims on the fetch result
\* the articles fetch_latest_articles has gathered from the sources, and
\* what _deduplicate_articles makes of them
Gathered == run.all_articles
Deduplicated == _deduplicate_articles(run.all_articles)

\* the article at position k of the gathered ones brings a link that no
\* article before it has
OwnIdentifier(k) ==
  /\ Catalog[Gathered[k]].link # ""
  /\ \A j \in 1..(k - 1) : Catalog[Gathered[j]].link # Catalog[Gathered[k]].link

\* C31: the normalized title is the identifier only of the articles that
\* bring none of their own: an article with a link of its own is kept
\* whatever its title; among the articles without a link the result holds
\* no two of the same normalized title, the first of each in input order;
\* and deduplicating the result again changes nothing.
C31_TitleOnlyWithoutIdentifier ==
  run.pc \in {"done", "raised"}
    => /\ \A k \in 1..Len(Gathered) :
            OwnIdentifier(k) => Gathered[k] \in Range(Deduplicated)
       /\ \A i, j \in 1..Len(Deduplicated) :
            (/\ i < j
             /\ Catalog[Deduplicated[i]].link = ""
             /\ Catalog[Deduplicated[j]].link = "")
              => LowerStrip(Catalog[Deduplicated[i]].title)
                   # LowerStrip(Catalog[Deduplicated[j]].title)
       /\ _deduplicate_articles(Deduplicated) = Deduplicated


\* ------------------------------------------------- claims on the news cycle
\* C32: a link is in sent_articles only if a suggestion for an article of
\* that link was sent to the owner: an article without drafts, or one whose
\* message could not be sent, is not marked consumed.  (Stated with what
\* the claim needs at the least: _send_tweet_suggestions was called for
\* the article.)
C32_ConsumedImpliesOffered ==
  \A l \in sent_articles : \E d \in dispatches : LinkOf(d) = l


\* the cycle of this caller returns "success" with this step
ReturnsSuccess(inv) == cycles[inv].pc = "sleep" /\ cycles'[inv] = Idle

\* C33: fetch_and_send_news returns "success" only if a suggestion was sent
\* to the owner in that cycle; with new articles of which none could be
\* drafted or sent it returns "error".  (Stated with what the claim needs at
\* the least: _send_tweet_suggestions was called in the cycle.)
C33_SuccessIsTruthful ==
  [][\A inv \in Invokers :
       ReturnsSuccess(inv) => \E d \in dispatches : d[2] = cycles[inv].id]_vars


\* ------------------------------------------------- callbacks of other users
\* The bot as above, cycles one after another, with the owner's presses and
\* with callbacks that carry the id of another user (button_callback does
\* not look at who sent the callback other than to find the entry).

Strangers == {"guest"}

\* NewsBot.button_callback for a callback of user u on message m: the
\* reply replaces the message, buttons included; `del` follows the reply
\* of the skip branch and of a valid selection
StrangerPress(u, m, data) ==
  /\ hpc = "idle"
  /\ m \in chat
  /\ \E api_ok \in BOOLEAN :
       LET out == button_callback(u, data, pending_tweets, creds, api_ok)
       IN  /\ api_ok \/ (out.posts # << >> /\ post_tweet_requests(out.posts[1], creds))
           /\ act' = [on |-> TRUE, data |-> data, msg |-> m,
                      entry |-> pending_tweets,
                      shown |-> \E x \in chat : EntryOf(x, pending_tweets),
                      out |-> out, done |-> TRUE]
           /\ pending_tweets' =
                IF out.del
                THEN [x \in DOMAIN pending_tweets \ {u} |-> pending_tweets[x]]
                ELSE pending_tweets
  /\ chat' = chat \ {m}
  /\ UNCHANGED << phase, feed, creds, sent_articles, cycles, nCycles,
                  dispatches, hpc, latest_reply >>
  /\ UNCHANGED aside

NextUsers ==
  \/ NextSerial
  \/ \E m \in chat, data \in Tokens : ButtonPress(m, data)
  \/ EditDone
  \/ \E u \in Strangers, m \in chat, data \in Tokens : StrangerPress(u, m, data)

SpecUsers == Init /\ [][NextUsers]_vars

\* C34: a callback of a user who is not the owner hands nothing to the
\* Publishing Endpoint and leaves the table of pending suggestions, the
\* owner's entry with it, as it is, whatever the table holds and whatever
\* the data; the reply is that the tweet data expired.
C34_OnlyOwnerPublishes ==
  [][\A u \in Strangers, m \in chat, data \in Tokens :
       StrangerPress(u, m, data)
         => /\ act'.out.posts = << >>
            /\ act'.out.reply = "expired"
            /\ pending_tweets' = pending_tweets]_vars

\* another user has pressed the button of the first draft of the message
\* whose drafts are the owner's entry; the entry is still there
C34_Witness ==
  /\ act.on
  /\ act.done
  /\ act.out.reply = "expired"
  /\ act.data = SelectToken(1)
  /\ OwnerId \in DOMAIN act.entry
  /\ EntryOf(act.msg, act.entry)
  /\ pending_tweets = act.entry


\* ------------------------------------------------------------ auto-posting
\* One call of BaseBot._handle_tweet_suggestion (no subclass overrides it,
\* nor _post_to_x).  x_credentials: the dict of the bot's record is not
\* empty (the BotFather stores {"bearer_token": ...} or {}); env: the X_*
\* variables of the process; text: the length of the tweet text.

\* XPoster(self.x_credentials): the dict is the first positional argument,
\* bearer_token, and every other value comes from the environment
XPoster(x_credentials, env) ==
  [env EXCEPT !.bearer_token = x_credentials \/ env.bearer_token]

\* the texts process_content hands over (None and "" never get here), by
\* length
SugTexts == {1, TweetLimit, TweetLimit + 1}

\* BaseBot._handle_tweet_suggestion: the message it sends, the notification
\* of an auto-post or the request for approval; success is what _post_to_x
\* returned
_handle_tweet_suggestion(auto_post, x_credentials, success) ==
  IF auto_post /\ x_credentials
  THEN IF success THEN "auto_posted" ELSE "approval"
  ELSE "approval"

\* _handle_tweet_suggestion is called: with auto_post and credentials it
\* awaits _post_to_x, else it sends the request for approval
SugBegin ==
  /\ sug.pc = "none"
  /\ \E auto_post \in BOOLEAN, x_credentials \in BOOLEAN, env \in CredConfigs,
        text \in SugTexts :
       LET g == [NoSug EXCEPT !.auto_post = auto_post, !.x_credentials = x_credentials,
                              !.env = env, !.text = text]
       IN  sug' = IF auto_post /\ x_credentials
                  THEN [g EXCEPT !.pc = "posting"]
                  ELSE [g EXCEPT !.pc = "sending",
                                 !.sent = << _handle_tweet_suggestion(auto_post, x_credentials,
                                                                      FALSE) >>]
  /\ UNCHANGED << news, base, run, gen, reg, call, tg, sub, sup >>

\* _post_to_x is over: post_tweet has made its request or not and returned
\* its bool, _post_to_x has returned, and the message is being sent
SugPosted ==
  /\ sug.pc = "posting"
  /\ \E api_ok \in BOOLEAN :
       LET text == [art |-> 0, idx |-> 0, len |-> sug.text]
           c == XPoster(sug.x_credentials, sug.env)
           requested == post_tweet_requests(text, c)
           reported == post_tweet(text, c, api_ok)
           success == _post_to_x(text)
       IN  /\ api_ok \/ requested
           /\ sug' = [sug EXCEPT !.pc = "sending", !.requested = requested,
                                 !.reported = reported, !.success = success,
                                 !.sent = << _handle_tweet_suggestion(sug.auto_post,
                                               sug.x_credentials, success) >>]
  /\ UNCHANGED << news, base, run, gen, reg, call, tg, sub, sup >>

\* send_message is over, and with it _handle_tweet_suggestion
SugSent ==
  /\ sug.pc = "sending"
  /\ sug' = [sug EXCEPT !.pc = "done"]
  /\ UNCHANGED << news, base, run, gen, reg, call, tg, sub, sup >>

NextSug ==
  \/ SugBegin
  \/ SugPosted
  \/ SugSent

SpecSug == InitBase /\ [][NextSug]_vars

\* C35: _post_to_x returns True exactly when the Publishing Endpoint
\* reports success; with auto_post on and credentials configured, the owner
\* gets the notification of the auto-post and no request for approval when
\* the endpoint accepted the post, and the request for approval, once, when
\* the post failed.
C35_AutoPostPath ==
  (sug.pc \in {"sending", "done"} /\ sug.auto_post /\ sug.x_credentials)
    => /\ sug.success = sug.reported
       /\ sug.sent = IF sug.reported THEN << "auto_posted" >> ELSE << "approval" >>


\* ------------------------------------------------- the BotFather as supervisor
\* The BotFather over one run: start() with its auto-restart of the bots
\* whose record says active (records are left active when the BotFather
\* was killed: only its `finally` stops the bots), and the start, stop and
\* delete requests of the users.  The Application handles one update at a
\* time (it is built without concurrent updates), so one handler is in
\* progress at most; _auto_restart_active_bots runs in start() while the
\* updater already polls.  A record is its owner_id and its active status;
\* a process is named by the order in which it was spawned.

Users == {OwnerId, "guest"}

\* the bot ids of the store (two bots: one can belong to each user)
BotIds == {1, 2}

NoBot == [exists |-> FALSE, owner |-> "", active |-> FALSE]

\* the stores the BotFather can find when it starts
Stores ==
  [BotIds -> {NoBot} \cup {[exists |-> TRUE, owner |-> u, active |-> a] :
                          u \in Users, a \in BOOLEAN}]

RequestKinds == {"start_button", "startbot", "stop_button", "delete_button"}

NoHandler == [pc |-> "idle", kind |-> "none", user |-> "", id |-> 0, pid |-> 0,
              answer |-> "none"]

\* the ids of a set in ascending order
RECURSIVE InOrder(_)
InOrder(S) ==
  IF S = {} THEN << >>
  ELSE LET m == CHOOSE x \in S : \A y \in S : x <= y
       IN  << m >> \o InOrder(S \ {m})

\* every record counts as the user's
get_user_bots_All(store, user_id) == {b \in BotIds : store[b].exists}

\* ConfigManager.get_user_bots: the ids of the records with this owner_id
get_user_bots(store, user_id) ==
  {b \in BotIds : store[b].exists /\ store[b].owner = user_id}

\* ConfigManager.get_active_bots
get_active_bots(store) == {b \in BotIds : store[b].exists /\ store[b].active}

\* ConfigManager.update_bot_status: nothing for an id without record
update_bot_status(store, id, active) ==
  IF store[id].exists THEN [store EXCEPT ![id].active = active] ELSE store

\* `if bot_id in self.bot_processes`
AlreadyRunning(s, id) == s.bot_processes[id] # 0

\* _start_bot_process up to `await asyncio.sleep(2)`: the process is
\* spawned (the pid it gets), or the function has returned (0) because the
\* bot runs already or the script is missing or Popen raised
SpawnedPid(s, id, can_spawn) ==
  IF AlreadyRunning(s, id) \/ ~can_spawn THEN 0 ELSE Len(s.procs) + 1

Spawn(s, id, can_spawn) ==
  IF SpawnedPid(s, id, can_spawn) = 0 THEN s
  ELSE [s EXCEPT !.procs = Append(@, [id |-> id, status |-> "alive"])]

\* _start_bot_process after the sleep: a process that has not exited is put
\* into bot_processes and the bot is marked active
Register(s, id, pid) ==
  IF s.procs[pid].status = "alive"
  THEN [s EXCEPT !.bot_processes[id] = pid,
                 !.store = update_bot_status(s.store, id, TRUE)]
  ELSE s

\* BotFather._stop_bot_process
_stop_bot_process(s, id) ==
  IF s.bot_processes[id] # 0
  THEN [s EXCEPT !.procs[s.bot_processes[id]].status = "terminated",
                 !.bot_processes[id] = 0,
                 !.store = update_bot_status(s.store, id, FALSE)]
  ELSE s

\* the answer to a request for a bot that is not among the user's: the
\* buttons answer "Bot not found."; /startbot answers that the user has no
\* bots, or that the bot id was not found
NotOwnAnswer(store, kind, u) ==
  IF kind # "startbot" THEN "Bot not found"
  ELSE IF get_user_bots(store, u) = {} THEN "You don't have any bots"
  ELSE "Bot ID not found"

\* the answer of a start handler after _start_bot_process returned
StartAnswer(s, kind, id) ==
  IF kind = "startbot" \/ s.bot_processes[id] # 0 THEN "started" ELSE "failed"

\* start(): _auto_restart_active_bots reads the active bots
Boot ==
  /\ sup.restart.pc = "none"
  /\ LET todo == InOrder(get_active_bots(sup.store))
     IN  sup' = [sup EXCEPT !.restart = [pc |-> IF todo = << >> THEN "over" ELSE "start",
                                         todo |-> todo, pid |-> 0]]
  /\ UNCHANGED << news, base, run, gen, reg, call, tg, sug, sub >>

\* the auto-restart calls _start_bot_process for its next bot
RestartStart ==
  /\ sup.restart.pc = "start"
  /\ Len(sup.procs) < MaxSpawns
  /\ \E can_spawn \in BOOLEAN :
       LET id == Head(sup.restart.todo)
           pid == SpawnedPid(sup, id, can_spawn)
       IN  sup' = [Spawn(sup, id, can_spawn) EXCEPT
                     !.restart.pc = IF pid = 0 THEN "pause" ELSE "wait",
                     !.restart.pid = pid]
  /\ UNCHANGED << news, base, run, gen, reg, call, tg, sug, sub >>

\* its sleep of 2 seconds is over
RestartWake ==
  /\ sup.restart.pc = "wait"
  /\ sup' = [Register(sup, Head(sup.restart.todo), sup.restart.pid) EXCEPT
               !.restart.pc = "pause", !.restart.pid = 0]
  /\ UNCHANGED << news, base, run, gen, reg, call, tg, sug, sub >>

\* the sleep between two restarts is over
RestartNext ==
  /\ sup.restart.pc = "pause"
  /\ LET todo == Tail(sup.restart.todo)
     IN  sup' = [sup EXCEPT !.restart.todo = todo,
                            !.restart.pc = IF todo = << >> THEN "over" ELSE "start"]
  /\ UNCHANGED << news, base, run, gen, reg, call, tg, sug, sub >>

\* a request of user u for bot id: the start button, /startbot with the id,
\* the stop button, the delete button.  A start of one of the user's bots
\* goes on to the sleep of _start_bot_process unless that returned at once.
Request(u, kind, id) ==
  /\ sup.handler.pc = "idle"
  /\ \E can_spawn \in BOOLEAN :
       LET h == NoHandler
           pid == SpawnedPid(sup, id, can_spawn)
           stopped == _stop_bot_process(sup, id)
       IN  /\ (kind \in {"start_button", "startbot"} /\ id \in get_user_bots(sup.store, u)
                 /\ ~AlreadyRunning(sup, id) /\ can_spawn)
                => Len(sup.procs) < MaxSpawns
           /\ sup' =
                IF id \notin get_user_bots(sup.store, u)
                THEN [sup EXCEPT !.handler = [h EXCEPT !.user = u, !.id = id,
                                                       !.answer = NotOwnAnswer(sup.store, kind, u)]]
                ELSE IF kind \in {"start_button", "startbot"}
                THEN IF pid = 0
                     THEN [sup EXCEPT !.handler = [h EXCEPT !.answer = StartAnswer(sup, kind, id)]]
                     ELSE [Spawn(sup, id, can_spawn) EXCEPT
                             !.handler = [h EXCEPT !.pc = "wait", !.kind = kind, !.user = u,
                                                   !.id = id, !.pid = pid]]
                ELSE IF kind = "stop_button"
                THEN [stopped EXCEPT !.handler = [h EXCEPT !.answer = "stopped"]]
                ELSE [stopped EXCEPT !.store[id] = NoBot,
                                     !.handler = [h EXCEPT !.answer = "deleted"]]
  /\ UNCHANGED << news, base, run, gen, reg, call, tg, sug, sub >>

\* the sleep of the handler's _start_bot_process is over; the handler
\* answers
HandlerWake ==
  /\ sup.handler.pc = "wait"
  /\ LET s == Register(sup, sup.handler.id, sup.handler.pid)
     IN  sup' = [s EXCEPT !.handler = [NoHandler EXCEPT
                            !.answer = StartAnswer(s, sup.handler.kind, sup.handler.id)]]
  /\ UNCHANGED << news, base, run, gen, reg, call, tg, sug, sub >>

\* a bot process exits by itself
ChildExit ==
  /\ \E pid \in 1..Len(sup.procs) :
       /\ sup.procs[pid].status = "alive"
       /\ sup' = [sup EXCEPT !.procs[pid].status = "exited"]
  /\ UNCHANGED << news, base, run, gen, reg, call, tg, sug, sub >>

\* the BotFather as built, with the store it finds
FatherBuilt(store) ==
  [pc |-> "built", store |-> store,
   bot_processes |-> [b \in BotIds |-> 0], procs |-> << >>,
   handler |-> NoHandler,
   restart |-> [pc |-> "none", todo |-> << >>, pid |-> 0]]

\* the stores a BotFather leaves that was shut down by its `finally`:
\* _stop_all_bot_processes has marked every bot inactive
CleanStores == {store \in Stores : get_active_bots(store) = {}}

InitNoBots ==
  /\ phase = "new"
  /\ feed = 0
  /\ creds = CHOOSE c \in CredConfigs : ~HasCredentials(c)
  /\ sent_articles = {}
  /\ pending_tweets = NoPending
  /\ chat = {}
  /\ cycles = [inv \in Invokers |-> Idle]
  /\ nCycles = 0
  /\ dispatches = {}
  /\ hpc = "idle"
  /\ act = NoAct
  /\ latest_reply = "none"
  /\ base = BaseNew /\ run = NoRun /\ gen = NoGen /\ reg = RegNew
  /\ call = NoCall
  /\ tg = NoTG
  /\ sug = NoSug

InitFather ==
  InitNoBots /\ sub = NoSub /\ \E store \in Stores : sup = FatherBuilt(store)

InitOwners ==
  InitNoBots /\ sub = NoSub /\ \E store \in CleanStores : sup = FatherBuilt(store)

NextFather ==
  \/ Boot
  \/ RestartStart
  \/ RestartWake
  \/ RestartNext
  \/ \E u \in Users, kind \in RequestKinds, id \in BotIds : Request(u, kind, id)
  \/ HandlerWake
  \/ ChildExit

SpecFather == InitFather /\ [][NextFather]_vars

\* the BotFather after a clean shutdown: the auto-restart finds no bot
NextOwners ==
  \/ Boot
  \/ \E u \in Users, kind \in RequestKinds, id \in BotIds : Request(u, kind, id)
  \/ HandlerWake
  \/ ChildExit

SpecOwners == InitOwners /\ [][NextOwners]_vars

\* the processes of bot id that are alive
Alive(id) ==
  {pid \in 1..Len(sup.procs) : sup.procs[pid].id = id /\ sup.procs[pid].status = "alive"}

\* the processes whose _start_bot_process is in its sleep
Starting == {sup.handler.pid, sup.restart.pid} \ {0}

\* C36: under every interleaving of the start requests for one bot id,
\* that bot has one live process at most, and every live process is the one
\* recorded in bot_processes for its bot (or is the one a start in progress
\* is about to record).
C36_OneProcessPerBot ==
  \A id \in BotIds :
    /\ Cardinality(Alive(id)) <= 1
    /\ \A pid \in Alive(id) : sup.bot_processes[id] = pid \/ pid \in Starting


\* no start or stop operation is in progress: no handler runs and the
\* auto-restart of start() is over
Quiescent == sup.handler.pc = "idle" /\ sup.restart.pc = "over"

\* C37: whenever no start or stop operation is in progress, a bot id is in
\* bot_processes if and only if its record has active = True (so a failed
\* start leaves active = False, a stop or delete leaves no process entry).
C37_SupervisorConsistency ==
  Quiescent =>
    \A id \in BotIds :
      (sup.bot_processes[id] # 0) <=> (sup.store[id].exists /\ sup.store[id].active)


\* the record of bot id has owner_id = u
Owns(u, id) == sup.store[id].exists /\ sup.store[id].owner = u

\* the process map and the Config Store are as before the step
Untouched ==
  /\ sup'.store = sup.store
  /\ sup'.bot_processes = sup.bot_processes
  /\ sup'.procs = sup.procs

\* C38 as stated: a start, stop or delete request of a user for a bot
\* whose record has another owner_id (or no record) is answered
\* "Bot not found" and changes neither bot_processes nor the Config Store.
C38_BotNotFound ==
  [][\A u \in Users, kind \in RequestKinds, id \in BotIds :
       (Request(u, kind, id) /\ ~Owns(u, id)) =>
          Untouched /\ sup'.handler.answer = "Bot not found"]_vars

\* C38 with the answers of the code: such a request changes neither
\* bot_processes nor the Config Store; the buttons answer "Bot not found",
\* /startbot answers "Bot ID not found", or "You don't have any bots" to a
\* user without bots; and a start in its sleep is the owner's.
C38_OwnerOnlyControl ==
  [][/\ \A u \in Users, kind \in RequestKinds, id \in BotIds :
          (Request(u, kind, id) /\ ~Owns(u, id)) =>
             /\ Untouched
             /\ sup'.handler.pc = "idle"
             /\ sup'.handler.answer =
                  IF kind # "startbot" THEN "Bot not found"
                  ELSE IF \E b \in BotIds : Owns(u, b) THEN "Bot ID not found"
                  ELSE "You don't have any bots"
     /\ HandlerWake => Owns(sup.handler.user, sup.handler.id)]_vars

\* a user has pressed a button of a running bot of another user and was
\* refused
C38_Witness ==
  /\ sup.handler.answer = "Bot not found"
  /\ sup.store[sup.handler.id].exists
  /\ sup.store[sup.handler.id].owner # sup.handler.user
  /\ sup.bot_processes[sup.handler.id] # 0


\* ------------------------------------------------------------ batch bounds
\* the dispatches of the cycle with this id
DispatchedIn(id) == {d \in dispatches : d[2] = id}

\* C39: a cycle takes at most 3 of the not-yet-consumed articles of its
\* fetch, in the fetch's order, dispatches no others, and when it returns
\* every new article it has not dispatched is still unconsumed (so that a
\* later cycle dispatches it).
C39_BatchBounds ==
  [][\A inv \in Invokers :
       ReturnsSuccess(inv) =>
         LET c == cycles[inv]
         IN  /\ Len(c.batch) <= BatchSize
             /\ \A d \in DispatchedIn(c.id) : \E j \in 1..Len(c.batch) : c.batch[j] = d[1]
             /\ \A j \in 1..Len(c.batch) :
                  << c.batch[j], c.id >> \notin dispatches
                    => Catalog[c.batch[j]].link \notin sent_articles]_vars


\* ------------------------------------------ fetch_content of the subclasses
\* One JobMonitorBot, WebScraperBot or GmailBot instance over its
\* fetch_content calls.  A call asks the bot's source once per configured
\* query or website (the GmailBot asks once); what the source finds each
\* time is any part of what there is to find.  An item is the dictionary
\* the source utility builds: a job has an 'id', an email has an 'id', an
\* article has a 'title' and a 'link' (WebScraper never sets 'url').

SubBots == {"job_monitor", "web_scraper", "gmail_agent"}

\* dict.get(key) of a dictionary without the key
NoKey == "None"

Get(item, key) == IF key \in DOMAIN item THEN item[key] ELSE NoKey

\* what there is to find
Found(bot) ==
  CASE bot = "job_monitor" ->
         << [id |-> "j1"], [id |-> "j2"], [id |-> "j3"] >>
    [] bot = "web_scraper" ->
         << [title |-> "t1", link |-> "w1"], [title |-> "t2", link |-> "w2"],
            [title |-> "t3", link |-> "w3"] >>
    [] OTHER ->
         << [id |-> "e1", is_newsletter |-> TRUE],
            [id |-> "e2", is_newsletter |-> FALSE],
            [id |-> "e3", is_newsletter |-> TRUE] >>

\* the key under which the source utility files the identifier of an item
OwnKey(bot) == IF bot = "web_scraper" THEN "link" ELSE "id"

\* the key fetch_content asks the item for: job.get('id'),
\* article.get('url'), email.get('id')
IdKey(bot) == IF bot = "web_scraper" THEN "url" ELSE "id"

\* the items of a part of what there is to find, in the source's order
Part(bot, S) == [k \in 1..Cardinality(S) |-> Found(bot)[InOrder(S)[k]]]

\* the answers of the source to one request: the job boards' cards one
\* board after the other, the articles of a page, the messages of a search
Answers(bot) ==
  IF bot = "job_monitor"
  THEN {Part(bot, S) \o Part(bot, T) : S, T \in SUBSET (1..Len(Found(bot)))}
  ELSE {Part(bot, S) : S \in SUBSET (1..Len(Found(bot)))}

\* JobMonitor._deduplicate_jobs: the first job of each id, no job without
RECURSIVE DedupJobs(_, _, _)
DedupJobs(jobs, i, seen_ids) ==
  IF i > Len(jobs) THEN << >>
  ELSE LET job_id == Get(jobs[i], "id")
       IN  IF job_id # NoKey /\ job_id \notin seen_ids
           THEN << jobs[i] >> \o DedupJobs(jobs, i + 1, seen_ids \cup {job_id})
           ELSE DedupJobs(jobs, i + 1, seen_ids)

_deduplicate_jobs(jobs) == DedupJobs(jobs, 1, {})

\* JobMonitor._filter_jobs, WebScraper._filter_articles: without the items
\* the utility has filed (keywords, age and length are in what the source
\* finds); the GmailBot's client filters nothing
Handed(bot, answer, filed) ==
  CASE bot = "job_monitor" ->
         SelectSeq(_deduplicate_jobs(answer), LAMBDA x : Get(x, "id") \notin filed)
    [] bot = "web_scraper" ->
         SelectSeq(answer, LAMBDA x : Get(x, "link") \notin filed)
    [] OTHER -> answer

\* `if ... .get(key) not in self.processed_...`, and of the emails the
\* newsletters
NewItems(bot, items, processed) ==
  LET fresh == SelectSeq(items, LAMBDA x : Get(x, IdKey(bot)) \notin processed)
  IN  IF bot = "gmail_agent" THEN SelectSeq(fresh, LAMBDA x : x.is_newsletter)
      ELSE fresh

Keys(items, key) == {Get(items[k], key) : k \in 1..Len(items)}

Reverse(q) == [k \in 1..Len(q) |-> q[Len(q) + 1 - k]]

\* the sort of fetch_content before it returns: the jobs by 'scraped_at',
\* latest first (they were stamped in the order they were parsed); the
\* articles by 'date', which none has; the newsletters are not sorted
Sorted(bot, items) == IF bot = "job_monitor" THEN Reverse(items) ELSE items

\* the queries of a call
QueriesOf(bot) == IF bot = "gmail_agent" THEN 1 ELSE MaxQueries

SubNew(bot) ==
  [pc |-> "idle", bot |-> bot, calls |-> 0, q |-> 0, all |-> << >>,
   processed |-> {}, filed |-> {}, handed |-> {}, returned |-> << >>]

\* fetch_content is called
SubCall ==
  /\ sub.pc = "idle"
  /\ sub.calls < MaxFetches
  /\ sub' = [sub EXCEPT !.pc = "loop", !.calls = @ + 1, !.q = 1, !.all = << >>]
  /\ UNCHANGED << news, base, run, gen, reg, call, tg, sug, sup >>

\* one query, website or mailbox search of the call, from the answer of the
\* source to the next request (or to the sort)
SubQuery ==
  /\ sub.pc = "loop"
  /\ sub.q <= QueriesOf(sub.bot)
  /\ \E answer \in Answers(sub.bot) :
       LET items == Handed(sub.bot, answer, sub.filed)
           new == NewItems(sub.bot, items, sub.processed)
       IN  sub' = [sub EXCEPT
                     !.q = @ + 1,
                     !.filed = CASE sub.bot = "web_scraper" -> @ \cup Keys(items, "link")
                                 [] sub.bot = "job_monitor" -> @ \cup Keys(new, "id")
                                 [] OTHER -> @,
                     !.processed = @ \cup Keys(new, IdKey(sub.bot)),
                     !.handed = @ \cup {items[k] : k \in 1..Len(items)},
                     !.all = @ \o new]
  /\ UNCHANGED << news, base, run, gen, reg, call, tg, sug, sup >>

\* fetch_content sorts and returns
SubReturn ==
  /\ sub.pc = "loop"
  /\ sub.q > QueriesOf(sub.bot)
  /\ sub' = [sub EXCEPT !.pc = "idle", !.q = 0, !.all = << >>,
                        !.returned = @ \o Sorted(sub.bot, sub.all)]
  /\ UNCHANGED << news, base, run, gen, reg, call, tg, sug, sup >>

InitSub ==
  InitNoBots /\ sup = NoSup /\ \E bot \in SubBots : sub = SubNew(bot)

NextSub == SubCall \/ SubQuery \/ SubReturn

SpecSub == InitSub /\ [][NextSub]_vars

\* the items fetch_content is to return: what the source handed over, of
\* the emails the newsletters
Due == {x \in sub.handed : sub.bot = "gmail_agent" => x.is_newsletter}

\* C40: over the fetch_content calls of one bot instance no item identifier
\* is returned twice, and no item is taken for one seen before (and so not
\* returned) because it has no identifier.
C40_FetchTimeDedup ==
  /\ \A i, j \in 1..Len(sub.returned) :
       i # j => Get(sub.returned[i], OwnKey(sub.bot)) # Get(sub.returned[j], OwnKey(sub.bot))
  /\ sub.pc = "idle" =>
       \A x \in Due :
         Get(x, IdKey(sub.bot)) = NoKey => \E k \in 1..Len(sub.returned) : sub.returned[k] = x

====
